---- MODULE Spec2Model ----
(***************************************************************************)
(* Model of the Mulipea converter (python-majo/examples/examples.mulipea.py): *)
(* the batch orchestrator main(), the per-file worker mulipea_encode(), the *)
(* codec prober, the three route handlers and the two converters.           *)
(*                                                                         *)
(* Environment assumptions made explicit:                                  *)
(*  - a file is a relative path with a stem and a suffix; the mirrored      *)
(*    output path keeps the stem and replaces the suffix by ".m4a";         *)
(*  - the truncated md5 in the log file name is taken to be collision     *)
(*    free, so every source file has its own log path;                     *)
(*  - shutil.move either relocates the file or leaves the target untouched;*)
(*  - remove() of a closed log file succeeds;                               *)
(*  - the log file can be opened and the output and scratch directories    *)
(*    can be created (the exception each of them would raise is caught      *)
(*    nowhere, like the one of the probe, which the model does draw);       *)
(*  - DIR_LOGS outlives a run: a log retained by an earlier run is still    *)
(*    there when the next run starts (the worker opens its log with "a+"). *)
(***************************************************************************)
EXTENDS Integers, Sequences, FiniteSets, TLC

\* ------------------------------------------------------------------ bounds
NumFiles == 2
MaxWorkers == 2
MaxStdout == 3
MaxLyrics == 5
MaxDir == 3
MaxRuns == 2

\* ------------------------------------------------------- program constants
MAX_RETRY_ATTEMPTS == 3

\* ---------------------------------------------------------------- paths
Files == 1..NumFiles

SUPPORTED_FILE_TYPES == <<".m4a", ".mp3", ".ogg", ".flac">>

\* a source file is a relative path: a stem (directory and name) and a suffix
Path(stem, suffix) == [stem |-> stem, suffix |-> suffix]

\* the source trees the model runs on: every file has its own stem
\* ("a.mp3", "b.mp3", ...), or file 2k-1 and file 2k share one
\* ("a.mp3", "a.flac", "b.mp3", ...), or the last file is not audio
\* ("a.mp3", ..., "z.jpg")
TreeDistinct == [f \in Files |-> Path(f, SUPPORTED_FILE_TYPES[2])]
TreePaired ==
  [f \in Files |-> Path((f + 1) \div 2,
                        IF f % 2 = 1 THEN SUPPORTED_FILE_TYPES[2] ELSE SUPPORTED_FILE_TYPES[4])]

TreeMixed ==
  [f \in Files |-> Path(f, IF f = NumFiles THEN ".jpg" ELSE SUPPORTED_FILE_TYPES[2])]

\* Path.with_suffix(".m4a") under DIR_MULIPEA: the suffix is replaced, the
\* stem alone identifies the output path
with_suffix_m4a(path) == path.stem

Outputs == 1..NumFiles

\* values of an output path: not there, there before the run, or written by f
Absent == 0
Old == -1

\* ------------------------------------------------------------ log lines
Line(k) == [kind |-> k, n |-> 0]
RetryLine(n) == [kind |-> "retry", n |-> n]
MarkerLine == Line("failed-marker")
SepLine == Line("separator")

\* ---------------------------------------------------------------- prober
\* standard output of ffprobe as a sequence of symbols; " " and "\n" are
\* whitespace, the others are codec-name words
Whitespace == {" ", "\n"}
Words == {"aac", "alac", "mp3"}
Symbols == Words \cup Whitespace

RECURSIVE lstrip(_)
lstrip(s) == IF s # <<>> /\ Head(s) \in Whitespace THEN lstrip(Tail(s)) ELSE s

RECURSIVE rstrip(_)
rstrip(s) ==
  IF s # <<>> /\ s[Len(s)] \in Whitespace THEN rstrip(SubSeq(s, 1, Len(s) - 1)) ELSE s

strip(s) == rstrip(lstrip(s))

\* a probe outcome: how run() ended, the exit status and the decoded stdout
\*   how = "ran"        the tool ran and returned a CompletedProcess
\*   how = "nolaunch"   run() raised (the tool cannot be started)
\*   how = "undecodable" cp.stdout.decode() raised
ProbeOutcome(how, rc, out) == [how |-> how, rc |-> rc, out |-> out]

\* _mulipea_get_m4a_codec: [raised, value, complained]
mulipea_get_m4a_codec(o) ==
  IF o.how = "nolaunch" THEN [raised |-> TRUE, value |-> <<>>, complained |-> FALSE]
  ELSE IF o.rc # 0 THEN [raised |-> FALSE, value |-> <<>>, complained |-> TRUE]
  ELSE IF o.how = "undecodable" THEN [raised |-> TRUE, value |-> <<>>, complained |-> FALSE]
  ELSE [raised |-> FALSE, value |-> strip(o.out), complained |-> FALSE]

\* a router that lost its elif branch
handling_function_no_elif(codec) ==
  IF codec = <<"aac">> THEN "aac" ELSE "generic"

\* the if/elif/else of mulipea_encode that picks handling_function
handling_function(codec) ==
  IF codec = <<"aac">> THEN "aac"
  ELSE IF codec = <<"alac">> THEN "alac"
  ELSE "generic"

Routes == {"aac", "alac", "generic"}

\* ------------------------------------------------------------ converters
\* what the external tool and the move did: exit status, whether the output
\* file is there afterwards, whether the move succeeds when called
ToolRun(rc, exists, mv) == [rc |-> rc, exists |-> exists, mv |-> mv]

helper_move(mv) == mv

\* a converter that gives up only when both checks fail
mulipea_convert_any_to_wav_and(t) ==
  IF (t.rc # 0) /\ (~t.exists)
  THEN [ret |-> FALSE, moveCalled |-> FALSE]
  ELSE [ret |-> helper_move(t.mv), moveCalled |-> TRUE]

mulipea_convert_any_to_wav(t) ==
  IF (t.rc # 0) \/ (~t.exists)
  THEN [ret |-> FALSE, moveCalled |-> FALSE]
  ELSE [ret |-> helper_move(t.mv), moveCalled |-> TRUE]

mulipea_convert_qaac_compatible_to_aac(t) ==
  IF (t.rc # 0) \/ (~t.exists)
  THEN [ret |-> FALSE, moveCalled |-> FALSE]
  ELSE [ret |-> helper_move(t.mv), moveCalled |-> TRUE]

\* metadata copy: exit status of the muxer, whether its output is there, and
\* whether the tag mapper could hand back the output's metadata
MetaRun(rc, exists, readable) == [rc |-> rc, exists |-> exists, readable |-> readable]

mulipea_copy_metadata(m) ==
  IF (m.rc # 0) \/ (~m.exists) THEN FALSE ELSE m.readable

\* --------------------------------------------------------------- handlers
\* what one attempt meets: the result of every tool, library and file
\* operation the handlers call
ToolRuns == [rc : {0, 1}, exists : BOOLEAN, mv : BOOLEAN]
MetaRuns == [rc : {0, 1}, exists : BOOLEAN, readable : BOOLEAN]
Envs == [copy : BOOLEAN, wav : ToolRuns, aac : ToolRuns, meta : MetaRuns,
         std : BOOLEAN, mv : BOOLEAN]

GoodEnv == [copy |-> TRUE, wav |-> ToolRun(0, TRUE, TRUE), aac |-> ToolRun(0, TRUE, TRUE),
            meta |-> MetaRun(0, TRUE, TRUE), std |-> TRUE, mv |-> TRUE]

\* the environments of the whole-system specification: everything works, or
\* exactly one operation goes wrong
RunEnvs ==
  {GoodEnv, [GoodEnv EXCEPT !.copy = FALSE], [GoodEnv EXCEPT !.std = FALSE],
   [GoodEnv EXCEPT !.mv = FALSE], [GoodEnv EXCEPT !.wav = ToolRun(1, TRUE, TRUE)],
   [GoodEnv EXCEPT !.aac = ToolRun(0, FALSE, TRUE)],
   [GoodEnv EXCEPT !.meta = MetaRun(0, TRUE, FALSE)]}

\* result of a handler: its return value, the steps it ran in order, the
\* external tools it started, whether it removed the output path, whether it
\* moved its intermediate to the output path, whether it posted progress
HandlerResult(ret, steps, tools, cleanup, moved, posted) ==
  [ret |-> ret, steps |-> steps, tools |-> tools, cleanup |-> cleanup,
   moved |-> moved, posted |-> posted]

\* a pass-through handler that relocates whatever the standardiser returned
mulipea_handle_aac_promotes(e) ==
  IF ~e.copy THEN HandlerResult(FALSE, <<"copy">>, {}, FALSE, FALSE, FALSE)
  ELSE HandlerResult(helper_move(e.mv) /\ e.std, <<"copy", "standardise", "relocate">>, {},
                     FALSE, helper_move(e.mv), TRUE)

mulipea_handle_aac(e) ==
  IF ~e.copy THEN HandlerResult(FALSE, <<"copy">>, {}, FALSE, FALSE, FALSE)
  ELSE IF ~e.std
    THEN HandlerResult(FALSE, <<"copy", "standardise">>, {}, FALSE, FALSE, TRUE)
  ELSE HandlerResult(helper_move(e.mv), <<"copy", "standardise", "relocate">>, {},
                     FALSE, helper_move(e.mv), TRUE)

\* a direct-encode handler that does not test what the metadata copy returned
mulipea_handle_alac_unchecked_copy(e) ==
  IF ~mulipea_convert_qaac_compatible_to_aac(e.aac).ret
    THEN HandlerResult(FALSE, <<"aac">>, {"qaac"}, FALSE, FALSE, TRUE)
  ELSE IF ~e.std
    THEN HandlerResult(FALSE, <<"aac", "metadata", "standardise">>, {"qaac", "ffmpeg"},
                       FALSE, FALSE, TRUE)
  ELSE HandlerResult(helper_move(e.mv), <<"aac", "metadata", "standardise", "relocate">>,
                     {"qaac", "ffmpeg"}, FALSE, helper_move(e.mv), TRUE)

mulipea_handle_alac(e) ==
  IF ~mulipea_convert_qaac_compatible_to_aac(e.aac).ret
    THEN HandlerResult(FALSE, <<"aac">>, {"qaac"}, FALSE, FALSE, TRUE)
  ELSE IF ~mulipea_copy_metadata(e.meta)
    THEN HandlerResult(FALSE, <<"aac", "metadata">>, {"qaac", "ffmpeg"}, FALSE, FALSE, TRUE)
  ELSE IF ~e.std
    THEN HandlerResult(FALSE, <<"aac", "metadata", "standardise">>, {"qaac", "ffmpeg"},
                       FALSE, FALSE, TRUE)
  ELSE HandlerResult(helper_move(e.mv), <<"aac", "metadata", "standardise", "relocate">>,
                     {"qaac", "ffmpeg"}, FALSE, helper_move(e.mv), TRUE)

mulipea_handle_generic(e) ==
  IF ~mulipea_convert_any_to_wav(e.wav).ret
    THEN HandlerResult(FALSE, <<"wav">>, {"ffmpeg"}, FALSE, FALSE, TRUE)
  ELSE IF ~mulipea_convert_qaac_compatible_to_aac(e.aac).ret
    THEN HandlerResult(FALSE, <<"wav", "aac">>, {"ffmpeg", "qaac"}, FALSE, FALSE, TRUE)
  ELSE IF ~mulipea_copy_metadata(e.meta)
    THEN HandlerResult(FALSE, <<"wav", "aac", "metadata">>, {"ffmpeg", "qaac"},
                       FALSE, FALSE, TRUE)
  ELSE IF ~e.std
    THEN HandlerResult(FALSE, <<"wav", "aac", "metadata", "standardise">>,
                       {"ffmpeg", "qaac"}, TRUE, FALSE, TRUE)
  ELSE HandlerResult(helper_move(e.mv),
                     <<"wav", "aac", "metadata", "standardise", "relocate">>,
                     {"ffmpeg", "qaac"}, FALSE, helper_move(e.mv), TRUE)

\* handling_function(input, rinput, output, logfile_io, ...)
Handle(route, e) ==
  IF route = "aac" THEN mulipea_handle_aac(e)
  ELSE IF route = "alac" THEN mulipea_handle_alac(e)
  ELSE mulipea_handle_generic(e)

\* ------------------------------------------------------------------ state
VARIABLES
  tree,        \* DIR_MUSIC: the source file behind each file number
  dest,        \* output tree: output path -> Absent, Old or the file that wrote it
  logOn,       \* DIR_LOGS: the files whose log file exists
  log,         \* contents of each log file, a sequence of lines
  buf,         \* text written to logfile_io and not yet flushed to the file
  pc,          \* position of each worker process in mulipea_encode
  attempts,    \* mulipea_encode's attempts counter
  route,       \* the handling_function picked, "none" before the probe
  tools,       \* external tools each worker has started
  runs,        \* how many times each worker has called its handling_function
  result,      \* how each worker ended
  sent,        \* kinds of message each worker has posted, equal neighbours merged
  channel,     \* process_updates: task id -> the pending ProgressUpdate
  display,     \* task lines the rich Progress shows
  opc,         \* position of main()
  targets,     \* main's targets list
  workers,     \* main's worker budget
  idx,         \* main's loop variable i (1-based position in targets)
  processes,   \* main's processes list
  overall,     \* completed value of the overall progress line
  report,      \* what main printed at the end
  tmp,         \* the temporary directory each worker's handler is working in
  call         \* a single call of a function, for the function-level specification

vars == <<tree, call, dest, logOn, log, buf, pc, attempts, route, tools, runs, result, sent,
          channel, display, opc, targets, workers, idx, processes, overall, report, tmp>>

workerVars == <<dest, logOn, log, buf, pc, attempts, route, tools, runs, result, sent,
                channel, tmp>>
mainVars == <<opc, targets, workers, idx, processes, overall, report>>

\* names mkdtemp can give a directory; NoDir: the handler is not running
ScratchNames == 1..NumFiles
NoDir == 0

\* tempfile.mkdtemp makes a directory that did not exist: any name but those
\* of the directories there
mkdtemp(existing) == ScratchNames \ existing

\* handlers that put their intermediates under one shared directory
scratch_root_shared(dir) == NoDir

\* "with TemporaryDirectory() as tmpdir": the directory the handler works in
scratch_root(dir) == dir

\* the intermediate paths of a handler: Path(tmpdir).joinpath(rinput), with
\* the suffixes the route gives it
intermediates(r, dir, path) ==
  LET at(suffix) == [root |-> scratch_root(dir), stem |-> path.stem, suffix |-> suffix]
  IN IF r = "aac" THEN {at(path.suffix)}
     ELSE IF r = "alac" THEN {at(".m4a"), at(".metadataless.m4a")}
     ELSE {at(".wav"), at(".metadataless.m4a"), at(".m4a")}

NoReport == [printed |-> "nothing", count |-> 0, listed |-> {}]

\* _mulipea_common_prehandle: the output path of a source file
mulipea_common_prehandle(f) == with_suffix_m4a(tree[f])

NoCall == [fn |-> "none", arg |-> <<>>, done |-> FALSE, ret |-> <<>>]

\* a sorted listing of a set of files (DIR_MUSIC.rglob order, taken ascending)
RECURSIVE Ascending(_)
Ascending(S) ==
  IF S = {} THEN <<>>
  ELSE LET m == CHOOSE x \in S : \A y \in S : x <= y
       IN <<m>> \o Ascending(S \ {m})

\* the log directory may hold logs that earlier runs of the program retained
Init ==
  /\ tree \in {TreeDistinct, TreePaired, TreeMixed}
  /\ call = NoCall
  /\ dest \in [Outputs -> {Absent, Old}]
  /\ \A o \in Outputs : (\A f \in Files : with_suffix_m4a(tree[f]) # o) => dest[o] = Absent
  /\ logOn \in SUBSET Files
  /\ log = [f \in Files |-> IF f \in logOn THEN <<Line("earlier-run")>> ELSE <<>>]
  /\ buf = [f \in Files |-> <<>>]
  /\ pc = [f \in Files |-> "new"]
  /\ attempts = [f \in Files |-> 1]
  /\ route = [f \in Files |-> "none"]
  /\ tools = [f \in Files |-> {}]
  /\ runs = [f \in Files |-> 0]
  /\ result = [f \in Files |-> "none"]
  /\ sent = [f \in Files |-> <<>>]
  /\ channel = [f \in Files |-> "none"]
  /\ display = {}
  /\ opc = "discover"
  /\ targets = <<>>
  /\ workers \in 1..MaxWorkers
  /\ idx = 1
  /\ processes = <<>>
  /\ overall = 0
  /\ report = NoReport
  /\ tmp = [f \in Files |-> NoDir]

\* ----------------------------------------------------------------- worker
\* the ffprobe outcomes the whole-system specification draws from
RunProbes ==
  {ProbeOutcome("ran", 0, <<w, "\n">>) : w \in Words}
  \cup {ProbeOutcome("ran", 1, <<>>), ProbeOutcome("nolaunch", 0, <<>>),
        ProbeOutcome("undecodable", 0, <<>>)}

\* _helper_update_progress / progress_dict[progress_task_id] = ...
Post(history, kind) ==
  IF history # <<>> /\ history[Len(history)] = "update" /\ kind = "update"
  THEN history ELSE Append(history, kind)

\* line 1505: logfile.open("a+") creates the log file or keeps what it holds
encode_open(f) ==
  /\ pc[f] = "open"
  /\ logOn' = logOn \cup {f}
  /\ pc' = [pc EXCEPT ![f] = "probe"]
  /\ UNCHANGED <<dest, log, buf, attempts, route, tools, runs, result, sent, channel,
                 display>>
  /\ UNCHANGED <<mainVars, tree, call, tmp>>

\* lines 1507-1521: probe the codec, log it, pick the handler; an exception
\* raised by the probe is caught nowhere and ends the process
encode_probe(f) ==
  /\ pc[f] = "probe"
  /\ \E o \in RunProbes :
       LET got == mulipea_get_m4a_codec(o) IN
       /\ tools' = [tools EXCEPT ![f] = IF o.how = "nolaunch" THEN @ ELSE @ \cup {"ffprobe"}]
       /\ IF got.raised
          THEN /\ pc' = [pc EXCEPT ![f] = "crashed"]
               /\ result' = [result EXCEPT ![f] = "crashed"]
               /\ UNCHANGED <<log, route>>
          ELSE /\ pc' = [pc EXCEPT ![f] = "check"]
               /\ route' = [route EXCEPT ![f] = handling_function(got.value)]
               /\ log' = [log EXCEPT ![f] =
                            @ \o (IF got.complained THEN <<Line("probe-error")>> ELSE <<>>)
                              \o <<Line("codec")>>]
               /\ UNCHANGED result
  /\ UNCHANGED <<dest, logOn, buf, attempts, runs, sent, channel, display>>
  /\ UNCHANGED <<mainVars, tree, call, tmp>>

\* a test that never finds the output
OutputExists_never(f) == FALSE

\* the test "output.exists()" on line 1526
OutputExists(f) == dest[mulipea_common_prehandle(f)] # Absent

\* a skip branch without its return statement
AfterSkip_falls_through == "loop"

\* what the skip branch does after posting the removal: return
AfterSkip == "done"

\* lines 1523-1537: compute the output path; skip when it is already there
encode_check(f) ==
  /\ pc[f] = "check"
  /\ IF OutputExists(f)
     THEN /\ logOn' = logOn \ {f}
          /\ log' = [log EXCEPT ![f] = <<>>]
          /\ buf' = [buf EXCEPT ![f] = <<>>]
          /\ channel' = [channel EXCEPT ![f] = "remove"]
          /\ sent' = [sent EXCEPT ![f] = Post(@, "remove")]
          /\ pc' = [pc EXCEPT ![f] = AfterSkip]
          /\ result' = [result EXCEPT ![f] = "skipped"]
     ELSE /\ pc' = [pc EXCEPT ![f] = "loop"]
          /\ UNCHANGED <<logOn, log, buf, channel, sent, result>>
  /\ UNCHANGED <<dest, attempts, route, tools, runs, display>>
  /\ UNCHANGED <<mainVars, tree, call, tmp>>

\* a loop test that lets one more attempt through
LoopTest_one_more(n) == n <= MAX_RETRY_ATTEMPTS + 1

\* the loop test on line 1539
LoopTest(n) == n <= MAX_RETRY_ATTEMPTS

\* a success branch that forgets to remove the log
LogAfterSuccess_kept(on, f) == on

\* what a successful attempt does to the log file (lines 1551-1553)
LogAfterSuccess(on, f) == on \ {f}

\* lines 1539-1548 and the first line of the handler: the loop test passes,
\* the retry header is logged through the path, the handler is called and
\* makes its temporary directory
encode_enter(f) ==
  /\ pc[f] = "loop"
  /\ LoopTest(attempts[f])
  /\ log' = [log EXCEPT ![f] = @ \o (IF attempts[f] > 1 THEN <<RetryLine(attempts[f])>> ELSE <<>>)]
  /\ runs' = [runs EXCEPT ![f] = @ + 1]
  /\ \E d \in mkdtemp({tmp[g] : g \in Files} \ {NoDir}) : tmp' = [tmp EXCEPT ![f] = d]
  /\ pc' = [pc EXCEPT ![f] = "handler"]
  /\ UNCHANGED <<dest, logOn, buf, attempts, route, tools, result, sent, channel, display>>
  /\ UNCHANGED <<mainVars, tree, call>>

\* the body of the handler, the end of its with block, and lines 1549-1563
encode_attempt(f) ==
  /\ pc[f] = "handler"
  /\ \E e \in RunEnvs :
       LET h == Handle(route[f], e)
           out == mulipea_common_prehandle(f)
           posted == IF h.posted THEN Post(sent[f], "update") ELSE sent[f]
       IN
       /\ tools' = [tools EXCEPT ![f] = @ \cup h.tools]
       /\ dest' = IF h.cleanup /\ dest[out] # Absent THEN [dest EXCEPT ![out] = Absent]
                  ELSE IF h.moved THEN [dest EXCEPT ![out] = f]
                  ELSE dest
       /\ tmp' = [tmp EXCEPT ![f] = NoDir]
       /\ IF h.ret
          THEN /\ logOn' = LogAfterSuccess(logOn, f)
               /\ log' = [log EXCEPT ![f] =
                            IF f \in logOn' THEN @ \o buf[f] \o <<Line("handler")>>
                            ELSE <<>>]
               /\ buf' = [buf EXCEPT ![f] = <<>>]
               /\ channel' = [channel EXCEPT ![f] = "remove"]
               /\ sent' = [sent EXCEPT ![f] = Post(posted, "remove")]
               /\ pc' = [pc EXCEPT ![f] = "done"]
               /\ result' = [result EXCEPT ![f] = "ok"]
               /\ UNCHANGED attempts
          ELSE /\ attempts' = [attempts EXCEPT ![f] = @ + 1]
               /\ log' = [log EXCEPT ![f] =
                            @ \o buf[f] \o <<Line("handler"), Line("handler-failed")>>]
               /\ buf' = [buf EXCEPT ![f] = <<SepLine>>]
               /\ channel' = [channel EXCEPT ![f] = IF h.posted THEN "update" ELSE @]
               /\ sent' = [sent EXCEPT ![f] = posted]
               /\ pc' = [pc EXCEPT ![f] = "loop"]
               /\ UNCHANGED <<logOn, result>>
  /\ UNCHANGED <<route, runs, display>>
  /\ UNCHANGED <<mainVars, tree, call>>

\* lines 1565-1570: the loop ran out; the marker goes to the file through a
\* second handle (_log with the path), and only then is logfile_io closed,
\* which flushes what logfile_io.write left in its buffer
encode_exhausted(f) ==
  /\ pc[f] = "loop"
  /\ ~LoopTest(attempts[f])
  /\ log' = [log EXCEPT ![f] = (@ \o <<MarkerLine>>) \o buf[f]]
  /\ buf' = [buf EXCEPT ![f] = <<>>]
  /\ channel' = [channel EXCEPT ![f] = "remove"]
  /\ sent' = [sent EXCEPT ![f] = Post(@, "remove")]
  /\ pc' = [pc EXCEPT ![f] = "done"]
  /\ result' = [result EXCEPT ![f] = "exhausted"]
  /\ UNCHANGED <<dest, logOn, attempts, route, tools, runs, display>>
  /\ UNCHANGED <<mainVars, tree, call, tmp>>

\* ------------------------------------------------------------------- main
\* a liveness test that never sees a process end
is_alive_always(f) == TRUE

\* Process.is_alive()
is_alive(f) == pc[f] \notin {"done", "crashed"}

\* the first process of the list that is not alive, 0 when all are alive
FirstDead(ps) ==
  IF \E k \in 1..Len(ps) : ~is_alive(ps[k])
  THEN CHOOSE k \in 1..Len(ps) : ~is_alive(ps[k]) /\ \A j \in 1..(k - 1) : is_alive(ps[j])
  ELSE 0

RemoveAt(ps, k) == SubSeq(ps, 1, k - 1) \o SubSeq(ps, k + 1, Len(ps))

\* a loop test that lets one process too many through
AtLimit_off_by_one(n, budget) == n > budget

\* the test of the inner while loop on line 1634
AtLimit(n, budget) == n >= budget

\* lines 1647-1662 and 1688-1702: remove_task and del for a removal message,
\* progress.update for any other
Drain ==
  /\ display' = display \ {f \in Files : channel[f] = "remove"}
  /\ channel' = [f \in Files |-> IF channel[f] = "remove" THEN "none" ELSE channel[f]]

\* "file.suffix in SUPPORTED_FILE_TYPES"
is_supported(suffix) ==
  \E k \in 1..Len(SUPPORTED_FILE_TYPES) : SUPPORTED_FILE_TYPES[k] = suffix

\* a discovery that looks at no suffix
is_target_any_suffix(f) == dest[with_suffix_m4a(tree[f])] = Absent

\* lines 1591-1599: the two tests a file of DIR_MUSIC passes to be a target
is_target(f) ==
  /\ is_supported(tree[f].suffix)
  /\ dest[with_suffix_m4a(tree[f])] = Absent

\* lines 1588-1607
main_discover ==
  /\ opc = "discover"
  /\ targets' = Ascending({f \in Files : is_target(f)})
  /\ IF Len(targets') = 0
     THEN /\ opc' = "exit"
          /\ report' = [printed |-> "nothing to do", count |-> 0, listed |-> {}]
     ELSE /\ opc' = "for"
          /\ UNCHANGED report
  /\ UNCHANGED <<workers, idx, processes, overall, display>>
  /\ UNCHANGED <<workerVars, tree, call>>

\* lines 1634-1664: one pass of the inner while loop
main_wait ==
  /\ opc = "for"
  /\ AtLimit(Len(processes), workers)
  /\ LET k == FirstDead(processes) IN
       /\ processes' = IF k > 0 THEN RemoveAt(processes, k) ELSE processes
       /\ overall' = IF k > 0 THEN idx ELSE overall
  /\ Drain
  /\ UNCHANGED <<opc, targets, workers, idx, report>>
  /\ UNCHANGED <<dest, logOn, log, buf, pc, attempts, route, tools, runs, result, sent, tree, call, tmp>>

\* an enumeration that yields the first file at every turn
enumerate_first(seq, i) == seq[1]

\* line 1624: the file that enumerate(targets, start=1) yields at turn i
enumerate(seq, i) == seq[i]

\* lines 1666-1679: add the task line, start the process, track it
main_launch ==
  /\ opc = "for"
  /\ ~AtLimit(Len(processes), workers)
  /\ LET f == enumerate(targets, idx) IN
       /\ display' = display \cup {f}
       /\ pc' = [pc EXCEPT ![f] = "open"]
       /\ processes' = Append(processes, f)
  /\ idx' = idx + 1
  /\ opc' = IF idx = Len(targets) THEN "final" ELSE "for"
  /\ UNCHANGED <<targets, workers, overall, report>>
  /\ UNCHANGED <<dest, logOn, log, buf, attempts, route, tools, runs, result, sent, channel, tree, call, tmp>>

\* lines 1682-1710: one pass of the final wait loop
main_finish ==
  /\ opc = "final"
  /\ processes # <<>>
  /\ LET k == FirstDead(processes) IN
       processes' = IF k > 0 THEN RemoveAt(processes, k) ELSE processes
  /\ Drain
  /\ UNCHANGED <<opc, targets, workers, idx, overall, report>>
  /\ UNCHANGED <<dest, logOn, log, buf, pc, attempts, route, tools, runs, result, sent, tree, call, tmp>>

\* lines 1712-1723: rescan the log directory and print the outcome
main_report ==
  /\ opc = "final"
  /\ processes = <<>>
  /\ report' = [printed |-> IF logOn # {} THEN "nay" ELSE "yay",
                count |-> Cardinality(logOn),
                listed |-> IF logOn # {}
                           THEN {targets[k] : k \in {j \in 1..Len(targets) : targets[j] \in logOn}}
                           ELSE {}]
  /\ opc' = "exit"
  /\ UNCHANGED <<targets, workers, idx, processes, overall, display>>
  /\ UNCHANGED <<workerVars, tree, call>>

Next ==
  \/ main_discover
  \/ main_wait
  \/ main_launch
  \/ main_finish
  \/ main_report
  \/ \E f \in Files : encode_open(f)
  \/ \E f \in Files : encode_probe(f)
  \/ \E f \in Files : encode_check(f)
  \/ \E f \in Files : encode_enter(f)
  \/ \E f \in Files : encode_attempt(f)
  \/ \E f \in Files : encode_exhausted(f)

Spec == Init /\ [][Next]_vars

\* the steps of the orchestrator, and those of the worker of file f
main == main_discover \/ main_wait \/ main_launch \/ main_finish \/ main_report
mulipea_encode(f) ==
  \/ encode_open(f) \/ encode_probe(f) \/ encode_check(f)
  \/ encode_enter(f) \/ encode_attempt(f) \/ encode_exhausted(f)

\* The run under a scheduler that keeps every process going: the
\* orchestrator's loops sleep and come back (lines 1664 and 1710), a started
\* worker is an operating-system process of its own, and every external tool
\* it calls returns, so a step that stays possible is eventually taken.
SpecLive ==
  /\ Spec
  /\ WF_vars(main)
  /\ \A f \in Files : WF_vars(mulipea_encode(f))

\* --------------------------------------------- function-level specification
\* one call of the prober and router, or of a converter, on a drawn input
RECURSIVE SeqsUpTo(_, _)
SeqsUpTo(S, n) ==
  IF n = 0 THEN {<<>>}
  ELSE LET shorter == SeqsUpTo(S, n - 1)
       IN shorter \cup {Append(q, x) : q \in shorter, x \in S}

Stdouts == SeqsUpTo(Symbols, MaxStdout)

ProbeOutcomes ==
  {ProbeOutcome("ran", rc, out) : rc \in {0, 1}, out \in Stdouts}
  \cup {ProbeOutcome("nolaunch", 0, <<>>)}
  \cup {ProbeOutcome("undecodable", rc, <<>>) : rc \in {0, 1}}

Calls ==
  {[fn |-> "route", arg |-> o, done |-> FALSE, ret |-> <<>>] : o \in ProbeOutcomes}
  \cup {[fn |-> c, arg |-> t, done |-> FALSE, ret |-> <<>>] :
          c \in {"any_to_wav", "qaac_compatible_to_aac"}, t \in ToolRuns}

InitFn ==
  /\ call \in Calls
  /\ tree = TreeDistinct
  /\ dest = [o \in Outputs |-> Absent]
  /\ logOn = {}
  /\ log = [f \in Files |-> <<>>]
  /\ buf = [f \in Files |-> <<>>]
  /\ pc = [f \in Files |-> "new"]
  /\ attempts = [f \in Files |-> 1]
  /\ route = [f \in Files |-> "none"]
  /\ tools = [f \in Files |-> {}]
  /\ runs = [f \in Files |-> 0]
  /\ result = [f \in Files |-> "none"]
  /\ sent = [f \in Files |-> <<>>]
  /\ channel = [f \in Files |-> "none"]
  /\ display = {}
  /\ opc = "idle"
  /\ targets = <<>>
  /\ workers = 1
  /\ idx = 1
  /\ processes = <<>>
  /\ overall = 0
  /\ report = NoReport
  /\ tmp = [f \in Files |-> NoDir]

systemVars == <<tree, dest, logOn, log, buf, pc, attempts, route, tools, runs, result,
                sent, channel, display, opc, targets, workers, idx, processes, overall,
                report, tmp>>

\* lines 1507-1521 of mulipea_encode on one probe outcome
call_route ==
  /\ call.fn = "route"
  /\ ~call.done
  /\ LET got == mulipea_get_m4a_codec(call.arg) IN
       call' = [call EXCEPT !.done = TRUE,
                            !.ret = [raised |-> got.raised, codec |-> got.value,
                                     route |-> IF got.raised THEN "none"
                                               ELSE handling_function(got.value)]]
  /\ UNCHANGED systemVars

call_convert_any_to_wav ==
  /\ call.fn = "any_to_wav"
  /\ ~call.done
  /\ call' = [call EXCEPT !.done = TRUE, !.ret = mulipea_convert_any_to_wav(call.arg)]
  /\ UNCHANGED systemVars

call_convert_qaac_compatible_to_aac ==
  /\ call.fn = "qaac_compatible_to_aac"
  /\ ~call.done
  /\ call' = [call EXCEPT !.done = TRUE,
                          !.ret = mulipea_convert_qaac_compatible_to_aac(call.arg)]
  /\ UNCHANGED systemVars

NextFn ==
  \/ call_route
  \/ call_convert_any_to_wav
  \/ call_convert_qaac_compatible_to_aac

SpecFn == InitFn /\ [][NextFn]_vars

\* ------------------------------------------- one attempt, step by step
\* the system variables while a single function is exercised
IdleSystem ==
  /\ tree = TreeDistinct
  /\ dest = [o \in Outputs |-> Absent]
  /\ logOn = {}
  /\ log = [f \in Files |-> <<>>]
  /\ buf = [f \in Files |-> <<>>]
  /\ pc = [f \in Files |-> "new"]
  /\ attempts = [f \in Files |-> 1]
  /\ route = [f \in Files |-> "none"]
  /\ tools = [f \in Files |-> {}]
  /\ runs = [f \in Files |-> 0]
  /\ result = [f \in Files |-> "none"]
  /\ sent = [f \in Files |-> <<>>]
  /\ channel = [f \in Files |-> "none"]
  /\ display = {}
  /\ opc = "idle"
  /\ targets = <<>>
  /\ workers = 1
  /\ idx = 1
  /\ processes = <<>>
  /\ overall = 0
  /\ report = NoReport
  /\ tmp = [f \in Files |-> NoDir]

\* the probe and the first attempt of mulipea_encode for a file whose output
\* is absent, as the steps taken in order and the effects of the handler
encode_once(o, e) ==
  LET got == mulipea_get_m4a_codec(o) IN
  IF got.raised
  THEN [route |-> "none", steps |-> <<"probe">>, ret |-> FALSE, moved |-> FALSE,
        cleanup |-> FALSE]
  ELSE LET r == handling_function(got.value)
           h == Handle(r, e)
       IN [route |-> r, steps |-> <<"probe">> \o h.steps, ret |-> h.ret,
           moved |-> h.moved, cleanup |-> h.cleanup]

\* a call not yet made
NewCall(fn, arg) == [fn |-> fn, arg |-> arg, done |-> FALSE, ret |-> <<>>]

InitAttempt ==
  /\ \E o \in RunProbes, e \in Envs : call = NewCall("encode_once", [probe |-> o, env |-> e])
  /\ IdleSystem

call_encode_once ==
  /\ call.fn = "encode_once"
  /\ ~call.done
  /\ call' = [call EXCEPT !.done = TRUE, !.ret = encode_once(call.arg.probe, call.arg.env)]
  /\ UNCHANGED systemVars

NextAttempt == call_encode_once

SpecAttempt == InitAttempt /\ [][NextAttempt]_vars

\* ------------------------------------------- the files an attempt touches
\* the roots of the two trees; a temporary directory is a root of its own,
\* named by a positive number
DIR_MUSIC == -1
DIR_MULIPEA == -2

\* a file: the tree it is in, its relative stem and its suffix
FilePath(root, stem, suffix) == [root |-> root, stem |-> stem, suffix |-> suffix]

\* _mulipea_common_prehandle on a path: the output under DIR_MULIPEA
prehandle_output(input) == FilePath(DIR_MULIPEA, input.stem, ".m4a")

\* Path(tmpdir).joinpath(rinput).with_suffix(suffix)
intermediate_at(dir, input, suffix) == FilePath(scratch_root(dir), input.stem, suffix)

\* a pass-through route that standardises the source where it lies and moves
\* it to the output
handle_aac_files_in_place(input, output, dir) ==
  [copy |-> {}, standardise |-> {input}, relocate |-> {input, output}]

\* lines 1241-1283: the files each step of the pass-through route writes,
\* moves or deletes: _helper_copy(input, intermediate), the standardiser on
\* the intermediate, _helper_move(intermediate, output)
handle_aac_files(input, output, dir) ==
  LET intermediate == intermediate_at(dir, input, input.suffix)
  IN [copy |-> {intermediate}, standardise |-> {intermediate},
      relocate |-> {intermediate, output}]

\* lines 1300-1373: qaac writes and moves intermediate_metadataless, the muxer
\* and the tag mapper write intermediate_final, which is then standardised
\* and moved
handle_alac_files(input, output, dir) ==
  LET intermediate_final == intermediate_at(dir, input, ".m4a")
      intermediate_metadataless == intermediate_at(dir, input, ".metadataless.m4a")
  IN [aac |-> {intermediate_metadataless}, metadata |-> {intermediate_final},
      standardise |-> {intermediate_final}, relocate |-> {intermediate_final, output}]

\* lines 1390-1493: as above, after ffmpeg has written intermediate_wav
handle_generic_files(input, output, dir) ==
  LET intermediate_wav == intermediate_at(dir, input, ".wav")
      intermediate_metadataless_aac == intermediate_at(dir, input, ".metadataless.m4a")
      intermediate_final == intermediate_at(dir, input, ".m4a")
  IN [wav |-> {intermediate_wav}, aac |-> {intermediate_metadataless_aac},
      metadata |-> {intermediate_final}, standardise |-> {intermediate_final},
      relocate |-> {intermediate_final, output}]

handle_files(r, input, output, dir) ==
  IF r = "aac" THEN handle_aac_files(input, output, dir)
  ELSE IF r = "alac" THEN handle_alac_files(input, output, dir)
  ELSE handle_generic_files(input, output, dir)

\* the probe and one attempt on a source file: the route, the steps run, the
\* files written, moved or deleted by them (the output too when the generic
\* route cleans it up), and the files only read
attempt_files(o, e, input, dir) ==
  LET got == mulipea_get_m4a_codec(o)
      output == prehandle_output(input)
  IN IF got.raised
     THEN [route |-> "none", steps |-> <<>>, ret |-> FALSE, touched |-> {}, read |-> {input}]
     ELSE LET r == handling_function(got.value)
              h == Handle(r, e)
          IN [route |-> r, steps |-> h.steps, ret |-> h.ret,
              touched |-> UNION {handle_files(r, input, output, dir)[h.steps[k]] :
                                   k \in 1..Len(h.steps)}
                          \cup (IF h.cleanup THEN {output} ELSE {}),
              read |-> {input}]

InitFiles ==
  /\ IdleSystem
  /\ \E o \in RunProbes, e \in RunEnvs, stem \in Files, dir \in ScratchNames,
        k \in 1..Len(SUPPORTED_FILE_TYPES) :
       call = NewCall("attempt_files",
                      [probe |-> o, env |-> e, dir |-> dir,
                       input |-> FilePath(DIR_MUSIC, stem, SUPPORTED_FILE_TYPES[k])])

call_attempt_files ==
  /\ call.fn = "attempt_files"
  /\ ~call.done
  /\ call' = [call EXCEPT !.done = TRUE,
                          !.ret = attempt_files(call.arg.probe, call.arg.env,
                                                call.arg.input, call.arg.dir)]
  /\ UNCHANGED systemVars

NextFiles == call_attempt_files

SpecFiles == InitFiles /\ [][NextFiles]_vars

\* ---------------------------------------------------------------- lyrics
\* a text is a sequence of characters; these are the characters lyrics are
\* drawn from: brackets, the two separators, a digit, a letter, and the
\* whitespace " " and "\n"
LyricChars == {"[", "]", ":", ".", "0", "a", " ", "\n"}
Digits == {"0", "1", "2", "3", "4", "5", "6", "7", "8", "9"}

\* str.index: position of the first c in s (from 1), 0 when there is none
index(s, c) ==
  IF \E i \in 1..Len(s) : s[i] = c
  THEN CHOOSE i \in 1..Len(s) : s[i] = c /\ \A j \in 1..(i - 1) : s[j] # c
  ELSE 0

\* str.splitlines
RECURSIVE splitlines(_)
splitlines(s) ==
  IF s = <<>> THEN <<>>
  ELSE LET i == index(s, "\n") IN
       IF i = 0 THEN <<s>>
       ELSE <<SubSeq(s, 1, i - 1)>> \o splitlines(SubSeq(s, i + 1, Len(s)))

\* "\n".join(lines)
RECURSIVE join(_)
join(lines) ==
  IF lines = <<>> THEN <<>>
  ELSE IF Len(lines) = 1 THEN lines[1]
  ELSE lines[1] \o <<"\n">> \o join(Tail(lines))

\* str.replace(c, ""): s without its occurrences of c
RECURSIVE remove_char(_, _)
remove_char(s, c) ==
  IF s = <<>> THEN <<>>
  ELSE IF Head(s) = c THEN remove_char(Tail(s), c)
  ELSE <<Head(s)>> \o remove_char(Tail(s), c)

\* a test that takes any bracket for a timestamp
is_timestamp_any(bracketed_portion) == TRUE

\* lines 218-223: all(c in "0123456789" for c in bracketed without ":" and ".")
is_timestamp(bracketed_portion) ==
  LET bare == remove_char(remove_char(bracketed_portion, ":"), ".")
  IN \A k \in 1..Len(bare) : bare[k] \in Digits

\* lines 206-226: what one line of the lyrics becomes
clean_up_line(line) ==
  IF ~(line # <<>> /\ line[1] = "[") THEN strip(line)
  ELSE IF index(line, "]") = 0 THEN strip(line)
  ELSE LET bracketed_portion == SubSeq(line, index(line, "[") + 1, index(line, "]") - 1)
       IN IF is_timestamp(bracketed_portion)
          THEN strip(SubSeq(line, Len(bracketed_portion) + 3, Len(line)))
          ELSE strip(line)

\* _helper_clean_up_lyrics
helper_clean_up_lyrics(lyrics) ==
  LET lines == splitlines(strip(lyrics))
  IN strip(join([k \in 1..Len(lines) |-> clean_up_line(lines[k])]))

InitLyrics ==
  /\ \E t \in SeqsUpTo(LyricChars, MaxLyrics) : call = NewCall("clean_up_lyrics", t)
  /\ IdleSystem

call_clean_up_lyrics ==
  /\ call.fn = "clean_up_lyrics"
  /\ ~call.done
  /\ call' = [call EXCEPT !.done = TRUE, !.ret = helper_clean_up_lyrics(call.arg)]
  /\ UNCHANGED systemVars

NextLyrics == call_clean_up_lyrics

SpecLyrics == InitLyrics /\ [][NextLyrics]_vars

\* ----------------------------------------------------------- standardiser
\* MP4 tag names are written with "xa9" for the copyright-sign byte "\xa9"
TAGS_MINIMUM == {"xa9alb", "xa9ART", "xa9nam", "trkn"}

TAGS_TO_KEEP ==
  ("xa9alb" :> "str") @@ ("xa9ART" :> "str") @@ ("xa9nam" :> "str") @@ ("trkn" :> "int")
  @@ ("xa9cmt" :> "str") @@ ("xa9day" :> "str") @@ ("xa9gen" :> "str")
  @@ ("xa9lyr" :> "str") @@ ("xa9mvc" :> "int") @@ ("xa9mvi" :> "int")
  @@ ("xa9mvn" :> "str") @@ ("xa9wrk" :> "int") @@ ("xa9wrt" :> "str")
  @@ ("xa9too" :> "str") @@ ("aART" :> "str") @@ ("covr" :> "str") @@ ("cpil" :> "bool")
  @@ ("cprt" :> "str") @@ ("disk" :> "int") @@ ("pgap" :> "bool") @@ ("purd" :> "str")
  @@ ("soaa" :> "str") @@ ("soal" :> "str") @@ ("soar" :> "str") @@ ("sonm" :> "str")
  @@ ("soco" :> "str") @@ ("tmpo" :> "int")

SWAP_ARTIST_AND_ALBUM_ARTIST == FALSE

\* the tags a target file is drawn with: the minimum ones, cover, lyrics,
\* encoder, and "xa9grp" (grouping), a tag TAGS_TO_KEEP does not list
StdTags == TAGS_MINIMUM \cup {"covr", "xa9lyr", "xa9too", "xa9grp"}

\* a directory entry next to the original file
Entry(stem, suffix, size) == [stem |-> stem, suffix |-> suffix, size |-> size]
NoEntry == Entry("", "", 0)

EntryNames ==
  {<<"cover", ".jpg">>, <<"Cover", ".jpg">>, <<"Cover", ".PNG">>, <<"front", ".jpg">>,
   <<"cover", ".txt">>}
EntrySizes == {10, 25, 40}

\* str.lower on the names above
lower(s) ==
  IF s = "Cover" THEN "cover"
  ELSE IF s = ".PNG" THEN ".png"
  ELSE s

\* listings of a directory: files of different names, in the order glob
\* yields them
Entries == {Entry(nm[1], nm[2], sz) : nm \in EntryNames, sz \in EntrySizes}

DistinctNames(d) ==
  \A i, j \in 1..Len(d) : i # j => <<d[i].stem, d[i].suffix>> # <<d[j].stem, d[j].suffix>>

Dirs == UNION {{d \in [1..k -> Entries] : DistinctNames(d)} : k \in 0..MaxDir}

\* a lyrics sidecar file: whether it exists and what it holds
Sidecar(exists, text) == [exists |-> exists, text |-> text]
NoSidecar == Sidecar(FALSE, <<>>)
LyricSamples == {<<"[", "0", "]", "a">>, <<"[", "a", "]">>}

\* a gate that is content with any one of the minimum tags
has_bare_minimum_any(tags) == \E tag \in TAGS_MINIMUM : tag \in tags

\* lines 1051-1052: all((tag in target_metadata) for tag in TAGS_MINIMUM)
has_bare_minimum(tags) == \A tag \in TAGS_MINIMUM : tag \in tags

\* lines 1096-1103: the entries named "cover" with an image suffix
is_nearby_image(f) ==
  lower(f.stem) = "cover" /\ lower(f.suffix) \in {".jpg", ".jpeg", ".png"}

\* a choice that takes the first candidate found
pick_nearby_cover_first(nearby_images) ==
  IF nearby_images = <<>> THEN NoEntry ELSE nearby_images[1]

\* lines 1113-1118: nearby_images[sizes.index(max(sizes))], None when empty
pick_nearby_cover(nearby_images) ==
  IF nearby_images = <<>> THEN NoEntry
  ELSE LET sizes == [k \in 1..Len(nearby_images) |-> nearby_images[k].size]
           largest == CHOOSE x \in {sizes[k] : k \in 1..Len(sizes)} :
                        \A k \in 1..Len(sizes) : sizes[k] <= x
           at == CHOOSE k \in 1..Len(sizes) :
                   sizes[k] = largest /\ \A j \in 1..(k - 1) : sizes[j] # largest
       IN nearby_images[at]

\* result of the standardiser: return value, steps run, the tags held in
\* memory at the end, whether the file was saved, whether the directory was
\* searched, the candidate picked, the file attached as cover, the lyrics
StdResult(ret, steps, tags, saved, searched, picked, attached, lyr) ==
  [ret |-> ret, steps |-> steps, tags |-> tags, saved |-> saved, searched |-> searched,
   picked |-> picked, attached |-> attached, lyr |-> lyr]

\* the standardiser's progress: still going (ok), steps run so far, the tags
\* held in memory, and what the cover and lyrics steps did
StdState(ok, steps, tags, searched, picked, attached, lyr) ==
  [ok |-> ok, steps |-> steps, tags |-> tags, searched |-> searched, picked |-> picked,
   attached |-> attached, lyr |-> lyr]

\* the covers list read on line 1068
std_covers(m, st) == IF "covr" \in st.tags THEN m.covers ELSE <<>>

\* lines 1042-1043: MP4(target)
std_load(m) ==
  StdState(m.loadable, <<"load">>, m.tags, FALSE, NoEntry, NoEntry,
           IF "xa9lyr" \in m.tags THEN m.lyr ELSE <<>>)

\* lines 1050-1057: step 0, the bare minimum tags
std_gate(m, st) ==
  IF ~st.ok THEN st
  ELSE [st EXCEPT !.steps = Append(@, "gate"), !.ok = has_bare_minimum(st.tags)]

\* a pruning step that deletes nothing
std_prune_nothing(m, st) ==
  IF ~st.ok THEN st ELSE [st EXCEPT !.steps = Append(@, "prune")]

\* lines 1059-1066: step 1, delete what TAGS_TO_KEEP does not list
std_prune(m, st) ==
  IF ~st.ok THEN st
  ELSE [st EXCEPT !.steps = Append(@, "prune"),
                  !.tags = {tag \in @ : tag \in DOMAIN TAGS_TO_KEEP}]

\* lines 1068-1088: resize the embedded JPEG and PNG covers
std_resize(m, st) ==
  IF ~st.ok \/ ~(\E k \in 1..Len(std_covers(m, st)) : std_covers(m, st)[k] \in {"jpeg", "png"})
  THEN st
  ELSE [st EXCEPT !.steps = Append(@, "resize"), !.ok = m.pilOk]

\* lines 1090-1145: steps 2 and 3, look for a cover next to the original
std_cover(m, st) ==
  IF ~st.ok \/ Len(std_covers(m, st)) # 0 THEN st
  ELSE IF ~m.fsOk
    THEN [st EXCEPT !.steps = Append(@, "search"), !.searched = TRUE, !.ok = FALSE]
  ELSE LET nearby_images == SelectSeq(m.dir, is_nearby_image)
           nearby_cover == pick_nearby_cover(nearby_images)
       IN IF nearby_cover = NoEntry
          THEN [st EXCEPT !.steps = Append(@, "search"), !.searched = TRUE]
          ELSE IF ~m.pilOk
            THEN [st EXCEPT !.steps = @ \o <<"search", "attach">>, !.searched = TRUE,
                            !.picked = nearby_cover, !.ok = FALSE]
          ELSE [st EXCEPT !.steps = @ \o <<"search", "attach">>, !.searched = TRUE,
                          !.picked = nearby_cover, !.attached = nearby_cover,
                          !.tags = @ \cup {"covr"}]

\* lines 1147-1168: step 4, lyrics from the .lrc sidecar, else from the .txt
std_lyrics(m, st) ==
  IF ~st.ok THEN st
  ELSE IF m.lrc.exists
    THEN [st EXCEPT !.steps = Append(@, "lyrics"), !.ok = m.readOk,
                    !.tags = IF m.readOk THEN @ \cup {"xa9lyr"} ELSE @,
                    !.lyr = IF m.readOk THEN m.lrc.text ELSE @]
  ELSE IF m.txt.exists
    THEN [st EXCEPT !.steps = Append(@, "lyrics"), !.ok = m.readOk,
                    !.tags = IF m.readOk THEN @ \cup {"xa9lyr"} ELSE @,
                    !.lyr = IF m.readOk THEN m.txt.text ELSE @]
  ELSE st

\* lines 1170-1174: clean up whatever lyrics the tags now hold
std_cleanup(m, st) ==
  IF ~st.ok \/ "xa9lyr" \notin st.tags THEN st
  ELSE [st EXCEPT !.steps = Append(@, "cleanup"), !.lyr = helper_clean_up_lyrics(@)]

\* lines 1176-1204: step 5, swap artist and album artist
std_swap(m, st) ==
  IF ~st.ok \/ ~SWAP_ARTIST_AND_ALBUM_ARTIST THEN st
  ELSE [st EXCEPT !.steps = Append(@, "swap")]

\* lines 1206-1212: stamp the encoder tag
std_stamp(m, st) ==
  IF ~st.ok \/ "xa9too" \notin st.tags THEN st
  ELSE [st EXCEPT !.steps = Append(@, "stamp")]

\* lines 1214-1216: target_metadata.save()
std_save(m, st) ==
  IF ~st.ok THEN st
  ELSE [st EXCEPT !.steps = Append(@, "save"), !.ok = m.saveOk]

\* _mulipea_standardise_mp4_metadata
mulipea_standardise_mp4_metadata(m) ==
  LET s1 == std_gate(m, std_load(m))
      s2 == std_resize(m, std_prune(m, s1))
      s3 == std_lyrics(m, std_cover(m, s2))
      s4 == std_stamp(m, std_swap(m, std_cleanup(m, s3)))
      s5 == std_save(m, s4)
  IN StdResult(s5.ok, s5.steps, s5.tags, s5.ok, s5.searched, s5.picked, s5.attached, s5.lyr)

\* a target file and what surrounds it
StdInput(loadable, tags, covers, lyr, dir, lrc, txt, pilOk, fsOk, readOk, saveOk) ==
  [loadable |-> loadable, tags |-> tags, covers |-> covers, lyr |-> lyr, dir |-> dir,
   lrc |-> lrc, txt |-> txt, pilOk |-> pilOk, fsOk |-> fsOk, readOk |-> readOk,
   saveOk |-> saveOk]

\* inputs that vary the tags of the target, inputs that vary the directory
\* of the original, and inputs that vary where lyrics can come from
InitStd ==
  /\ \/ \E ld \in BOOLEAN, tags \in SUBSET StdTags,
           dir \in {<<>>, <<Entry("cover", ".jpg", 10)>>},
           lrc \in {NoSidecar} \cup {Sidecar(TRUE, t) : t \in LyricSamples},
           fs \in BOOLEAN, sv \in BOOLEAN :
          call = NewCall("standardise",
                         StdInput(ld, tags, IF "covr" \in tags THEN <<"jpeg">> ELSE <<>>,
                                  <<"[", "0", "]", "a">>, dir, lrc, NoSidecar, TRUE, fs,
                                  TRUE, sv))
     \/ \E extra \in {{}, {"covr"}}, covers \in {<<>>, <<"jpeg">>, <<"other">>},
           dir \in Dirs, pil \in BOOLEAN :
          /\ "covr" \notin extra => covers = <<>>
          /\ call = NewCall("standardise",
                            StdInput(TRUE, TAGS_MINIMUM \cup extra, covers, <<>>, dir,
                                     NoSidecar, NoSidecar, pil, TRUE, TRUE, TRUE))
     \/ \E extra \in {{}, {"xa9lyr"}}, lyr \in LyricSamples,
           lrc \in {NoSidecar} \cup {Sidecar(TRUE, t) : t \in LyricSamples},
           txt \in {NoSidecar} \cup {Sidecar(TRUE, t) : t \in LyricSamples},
           rd \in BOOLEAN :
          call = NewCall("standardise",
                         StdInput(TRUE, TAGS_MINIMUM \cup extra \cup {"covr"}, <<"other">>,
                                  lyr, <<>>, lrc, txt, TRUE, TRUE, rd, TRUE))
  /\ IdleSystem

call_standardise ==
  /\ call.fn = "standardise"
  /\ ~call.done
  /\ call' = [call EXCEPT !.done = TRUE, !.ret = mulipea_standardise_mp4_metadata(call.arg)]
  /\ UNCHANGED systemVars

NextStd == call_standardise

SpecStd == InitStd /\ [][NextStd]_vars

\* ------------------------------------------------------------ tag mapping
\* from: (to, index <0 is replace, 1 is first, ...>), in the order of the dict
MapEntry(from, to, ix) == [from |-> from, to |-> to, index |-> ix]

TAGS_MAP_VORBIS_TO_MP4 ==
  << MapEntry("album", "xa9alb", 0), MapEntry("artist", "xa9ART", 0),
     MapEntry("title", "xa9nam", 0), MapEntry("tracknumber", "trkn", 1),
     MapEntry("tracktotal", "trkn", 2), MapEntry("totaltracks", "trkn", 2),
     MapEntry("comment", "xa9cmt", 0), MapEntry("date", "xa9day", 0),
     MapEntry("genre", "xa9gen", 0), MapEntry("lyrics", "xa9lyr", 0),
     MapEntry("unsyncedlyrics", "xa9lyr", 0), MapEntry("composer", "xa9wrt", 0),
     MapEntry("encoder", "xa9too", 0), MapEntry("albumartist", "aART", 0),
     MapEntry("compilation", "cpil", 0), MapEntry("copyright", "cprt", 0),
     MapEntry("discnumber", "disk", 1), MapEntry("disctotal", "disk", 2),
     MapEntry("totaldiscs", "disk", 2), MapEntry("gapless", "pgap", 0),
     MapEntry("purchase_date", "purd", 0), MapEntry("albumartistsort", "soaa", 0),
     MapEntry("albumsort", "soal", 0), MapEntry("artistsort", "soar", 0),
     MapEntry("titlesort", "sonm", 0), MapEntry("composersort", "soco", 0),
     MapEntry("bpm", "tmpo", 0) >>

TAGS_MAP_ID3_TO_MP4 ==
  << MapEntry("TALB", "xa9alb", 0), MapEntry("TPE1", "xa9ART", 0),
     MapEntry("TIT2", "xa9nam", 0), MapEntry("TRCK", "trkn", 1),
     MapEntry("TXXX:TRACKTOTAL", "trkn", 2), MapEntry("COMM", "xa9cmt", 0),
     MapEntry("TDRC", "xa9day", 0), MapEntry("TCON", "xa9gen", 0),
     MapEntry("MVIN", "xa9mvc", 0), MapEntry("MVNM", "xa9mvn", 0),
     MapEntry("TCOM", "xa9wrt", 0), MapEntry("TENC", "xa9too", 0),
     MapEntry("TPE2", "aART", 0), MapEntry("TCMP", "cpil", 0),
     MapEntry("TCOP", "cprt", 0), MapEntry("TPOS", "disk", 1),
     MapEntry("TSO2", "soaa", 0), MapEntry("TSOA", "soal", 0),
     MapEntry("TSOP", "soar", 0), MapEntry("TSOT", "sonm", 0),
     MapEntry("TSOC", "soco", 0), MapEntry("TBPM", "tmpo", 0),
     MapEntry("TXXX:DISCTOTAL", "disk", 2), MapEntry("TXXX:LYRICS", "xa9lyr", 0),
     MapEntry("USLT", "xa9lyr", 0) >>

\* a Python str is the sequence of its characters ("5/12" is
\* <<"5", "/", "1", "2">>)
DigitValue ==
  ("0" :> 0) @@ ("1" :> 1) @@ ("2" :> 2) @@ ("3" :> 3) @@ ("4" :> 4) @@ ("5" :> 5)
  @@ ("6" :> 6) @@ ("7" :> 7) @@ ("8" :> 8) @@ ("9" :> 9)

\* str.split("/")
RECURSIVE split_slash(_)
split_slash(str) ==
  LET i == index(str, "/") IN
  IF i = 0 THEN <<str>>
  ELSE <<SubSeq(str, 1, i - 1)>> \o split_slash(SubSeq(str, i + 1, Len(str)))

\* int(str): raises unless the str is a run of digits
can_int(str) == str # <<>> /\ \A k \in 1..Len(str) : str[k] \in Digits

RECURSIVE int(_)
int(str) ==
  IF Len(str) = 1 THEN DigitValue[str[1]]
  ELSE 10 * int(SubSeq(str, 1, Len(str) - 1)) + DigitValue[str[Len(str)]]

\* sep.join(list)
RECURSIVE join_with(_, _)
join_with(sep, list) ==
  IF list = <<>> THEN <<>>
  ELSE IF Len(list) = 1 THEN list[1]
  ELSE list[1] \o sep \o join_with(sep, Tail(list))

\* a value of a destination tag: its shape, the numbers it holds and, for
\* text, the str
\*   "absent"  the key is not there        "text"   a str
\*   "pairs"   [(n, m)]                     "int"    n
\*   "tuple"   (n, m)                       "ints"   [n]
\*   "empty"   []                           "bool"   n # 0
\*   "texts"   [str], as read from a file
TagValue(shape, n, m, text) == [shape |-> shape, n |-> n, m |-> m, text |-> text]
NoValue == TagValue("absent", 0, 0, <<>>)
TextValue(str) == TagValue("text", 0, 0, str)
TextsValue(str) == TagValue("texts", 0, 0, str)
IntValue(n) == TagValue("int", n, 0, <<>>)
BoolValue(b) == TagValue("bool", IF b THEN 1 ELSE 0, 0, <<>>)
PairsValue(n, m) == TagValue("pairs", n, m, <<>>)
TupleValue(n, m) == TagValue("tuple", n, m, <<>>)
IntsValue(n) == TagValue("ints", n, 0, <<>>)
EmptyValue == TagValue("empty", 0, 0, <<>>)

\* "not value" of Python
falsy(v) ==
  \/ v.shape \in {"absent", "empty"}
  \/ v.shape \in {"int", "bool"} /\ v.n = 0
  \/ v.shape = "text" /\ v.text = <<>>

\* what the tagging library takes for a tag when it checks the value: pairs
\* for the two pair atoms, a list of integers for the integer atoms,
\* anything for the flags, text for the rest
well_typed(tag, v) ==
  IF tag \in {"trkn", "disk"} THEN v.shape \in {"pairs", "empty"}
  ELSE IF tag \in {"tmpo", "xa9mvc", "xa9mvi"} THEN v.shape \in {"ints", "empty"}
  ELSE IF tag \in {"cpil", "pgap"} THEN TRUE
  ELSE v.shape \in {"text", "texts", "empty"}

\* target_metadata[tag] = value: a library that checks values on assignment
\* raises on an ill-typed one, a library that checks on save alone stores it
accepts(strict, tag, v) == ~strict \/ well_typed(tag, v)

\* the destination tags the two tables map to
DestTags ==
  {TAGS_MAP_VORBIS_TO_MP4[k].to : k \in 1..Len(TAGS_MAP_VORBIS_TO_MP4)}
  \cup {TAGS_MAP_ID3_TO_MP4[k].to : k \in 1..Len(TAGS_MAP_ID3_TO_MP4)}

\* input_metadata[key]: the list of values of a Vorbis comment, the text list
\* of an ID3 frame; <<>> when the key is not in the input
input_value(input, key) == IF key \in DOMAIN input THEN input[key] ELSE <<>>

\* the class mutagen gives the frame stored under an ID3 key, as far as the
\* match statement tells classes apart (COMM and TXXX derive from TextFrame)
frame_class(key) ==
  IF key \in {"MVIN", "TBPM", "TCMP", "TRCK", "TPOS", "USLT"} THEN key
  ELSE "TextFrame"

\* a match statement that has lost its TRCK() | TPOS() case: these frames are
\* TextFrames and fall to the last case
id3_case_without_pairs(cls) ==
  IF cls \in {"MVIN", "TBPM"} THEN "numeric"
  ELSE IF cls = "TCMP" THEN "flag"
  ELSE IF cls \in {"TextFrame", "USLT", "TRCK", "TPOS"} THEN "text"
  ELSE "none"

\* a match statement with the last case alone: every frame is handled as text
id3_case_all_text(cls) == "text"

\* lines 477-522: the case of the match statement a frame falls in
id3_case(cls) ==
  IF cls \in {"MVIN", "TBPM"} THEN "numeric"
  ELSE IF cls = "TCMP" THEN "flag"
  ELSE IF cls \in {"TRCK", "TPOS"} THEN "pair"
  ELSE IF cls \in {"TextFrame", "USLT"} THEN "text"
  ELSE "none"

\* a presence test that never finds the tag
already_present_never(target, tag) == FALSE

\* "target_mp4_tag in target_metadata"
already_present(target, tag) == target[tag].shape # "absent"

\* a read of the first component that makes one up when there is none
first_of_pair_default(v) == [ok |-> TRUE, n |-> v.n]

\* target_tag_value[0][0]: raises unless the value is a list of tuples
first_of_pair(v) == [ok |-> v.shape = "pairs", n |-> v.n]

\* len(value): raises on None, an int or a bool
has_len(v) == v.shape \notin {"absent", "int", "bool"}
value_len(v) ==
  IF v.shape = "empty" THEN 0
  ELSE IF v.shape = "tuple" THEN 2
  ELSE IF v.shape = "text" THEN Len(v.text)
  ELSE 1

\* the pass so far: the destination in memory, the assignments executed, the
\* two counters, the entries that failed or were skipped with a warning, the
\* entries visited, the entries whose mapping was started (the "setting tag"
\* line was logged), and whether an exception has left the loop
MapState(target, writes, attempted, succeeded, failed, skipped, visited, started, stopped) ==
  [target |-> target, writes |-> writes, attempted |-> attempted, succeeded |-> succeeded,
   failed |-> failed, skipped |-> skipped, visited |-> visited, started |-> started,
   stopped |-> stopped]

\* an except clause that lets the exception go on
map_failed_reraises(st, e) ==
  [st EXCEPT !.failed = Append(@, [from |-> e.from, to |-> e.to, before |-> st.target[e.to]]),
             !.stopped = TRUE]

\* the except clauses of both mappers: log a warning and continue
map_failed(st, e) ==
  [st EXCEPT !.failed = Append(@, [from |-> e.from, to |-> e.to, before |-> st.target[e.to]])]

\* a "continue" after a logged warning
map_skipped(st, e) == [st EXCEPT !.skipped = Append(@, e.from)]

\* a mapper that logs the "setting tag" line and forgets to count the attempt
map_attempt_uncounted(st) == [st EXCEPT !.started = Append(@, st.visited[Len(st.visited)])]

\* the "setting tag" log line of the entry being visited, then
\* tags_set_attempted += 1
map_attempt(st) ==
  [st EXCEPT !.attempted = @ + 1, !.started = Append(@, st.visited[Len(st.visited)])]

\* target_metadata[tag] = value, then tags_set_successfully += 1, in a try
map_store(m, st, e, v) ==
  LET w == [from |-> e.from, to |-> e.to, index |-> e.index, before |-> st.target[e.to],
            value |-> v, landed |-> accepts(m.strict, e.to, v)]
      st1 == [st EXCEPT !.writes = Append(@, w)]
  IN IF w.landed
     THEN [st1 EXCEPT !.target = [@ EXCEPT ![e.to] = v], !.succeeded = @ + 1]
     ELSE map_failed(st1, e)

\* TAGS_TO_KEEP[tag](value) on a str out of a Vorbis comment
str_to_type(type, str) ==
  IF type = "int" THEN [ok |-> can_int(str), value |-> IF can_int(str) THEN IntValue(int(str)) ELSE NoValue]
  ELSE IF type = "bool" THEN [ok |-> TRUE, value |-> BoolValue(str # <<>>)]
  ELSE [ok |-> TRUE, value |-> TextValue(str)]

\* TAGS_TO_KEEP[tag](frame) on an ID3 frame: str() joins its text with the
\* NUL character, bool() is true, int() raises
frame_to_type(type, text) ==
  IF type = "int" THEN [ok |-> FALSE, value |-> NoValue]
  ELSE IF type = "bool" THEN [ok |-> TRUE, value |-> BoolValue(TRUE)]
  ELSE [ok |-> TRUE, value |-> TextValue(join_with(<<"NUL">>, text))]

\* +frame: the number of a NumericTextFrame, the number before the slash of
\* a NumericPartTextFrame (MVIN)
frame_pos(key, text) ==
  LET str == IF key = "MVIN" THEN split_slash(text[1])[1] ELSE text[1]
  IN [ok |-> can_int(str), n |-> IF can_int(str) THEN int(str) ELSE 0]

Min(a, b) == IF a < b THEN a ELSE b

\* one turn of the loop of _mulipea_tag_vorbis_to_mp4
vorbis_entry(m, st, e) ==
  LET has == e.from \in DOMAIN m.input
      inp == input_value(m.input, e.from)
      cur == st.target[e.to]
      type == TAGS_TO_KEEP[e.to]
  IN
  IF e.index = 0 /\ ~already_present(st.target, e.to) THEN
    IF ~has THEN st
    ELSE map_store(m, map_attempt(st), e, TextValue(join_with(<<";", " ">>, inp)))
  ELSE IF e.index = 1 THEN
    IF ~has THEN st
    ELSE IF already_present(st.target, e.to) THEN st
    ELSE LET st1 == map_attempt(st)
             part == str_to_type(type, inp[1])
         IN IF Len(inp) # e.index THEN map_skipped(st1, e)
            ELSE IF ~part.ok THEN map_failed(st1, e)
            ELSE map_store(m, st1, e, part.value)
  ELSE IF e.index = 2 THEN
    IF ~has THEN st
    ELSE IF falsy(cur) THEN map_skipped(st, e)
    ELSE LET st1 == map_attempt(st)
             part == str_to_type(type, inp[Min(Len(inp), e.index)])
             first == first_of_pair(cur)
         IN IF Len(inp) < e.index - 1 THEN map_skipped(st1, e)
            ELSE IF ~part.ok THEN map_failed(st1, e)
            ELSE IF ~has_len(cur) THEN map_failed(st1, e)
            ELSE IF ~(value_len(cur) > 0) THEN map_skipped(st1, e)
            ELSE IF cur.shape # "pairs" THEN map_skipped(st1, e)
            ELSE IF ~first.ok THEN map_failed(st1, e)
            ELSE map_store(m, st1, e, PairsValue(first.n, part.value.n))
  ELSE st

\* one turn of the loop of _mulipea_tag_id3_to_mp4
id3_entry(m, st, e) ==
  LET has == e.from \in DOMAIN m.input
      text == input_value(m.input, e.from)
      cur == st.target[e.to]
      case == id3_case(frame_class(e.from))
      st1 == map_attempt(st)
  IN
  IF ~has THEN st
  ELSE IF case = "numeric" THEN
    LET pos == frame_pos(e.from, text)
    IN IF ~pos.ok THEN map_failed(st1, e) ELSE map_store(m, st1, e, IntValue(pos.n))
  ELSE IF case = "flag" THEN
    LET pos == frame_pos(e.from, text)
    IN IF ~pos.ok THEN map_failed(st1, e) ELSE map_store(m, st1, e, BoolValue(pos.n # 0))
  ELSE IF case = "pair" THEN
    LET parts == split_slash(text[1])
    IN IF Len(parts) # 2 THEN map_failed(st1, e)
       ELSE IF ~(can_int(parts[1]) /\ can_int(parts[2])) THEN map_failed(st1, e)
       ELSE map_store(m, st1, e, PairsValue(int(parts[1]), int(parts[2])))
  ELSE IF case = "text" THEN
    IF already_present(st.target, e.to) THEN st
    ELSE IF e.from \in {"TXXX:TRACKTOTAL", "TXXX:DISCTOTAL"} THEN
      LET first == first_of_pair(cur)
      IN IF ~first.ok THEN map_failed(st1, e)
         ELSE IF ~can_int(text[1]) THEN map_failed(st1, e)
         ELSE map_store(m, st1, e, PairsValue(first.n, int(text[1])))
    ELSE
      LET v == frame_to_type(TAGS_TO_KEEP[e.to], text)
      IN IF ~v.ok THEN map_failed(st1, e) ELSE map_store(m, st1, e, v.value)
  ELSE [st EXCEPT !.succeeded = @ + 1]

\* the table and the loop body of a scheme
tags_map(scheme) == IF scheme = "vorbis" THEN TAGS_MAP_VORBIS_TO_MP4 ELSE TAGS_MAP_ID3_TO_MP4
map_entry(m, st, e) == IF m.scheme = "vorbis" THEN vorbis_entry(m, st, e) ELSE id3_entry(m, st, e)

\* the for loop over the table, from entry k on
RECURSIVE map_from(_, _, _)
map_from(m, st, k) ==
  IF k > Len(tags_map(m.scheme)) \/ st.stopped THEN st
  ELSE LET e == tags_map(m.scheme)[k]
       IN map_from(m, map_entry(m, [st EXCEPT !.visited = Append(@, e.from)], e), k + 1)

\* target_metadata.save(): raises on a value the atom cannot be rendered
\* from, or when the file cannot be written
can_save(m, target) ==
  m.saveOk /\ \A tag \in DOMAIN target : target[tag].shape = "absent" \/ well_typed(tag, target[tag])

\* one run of a mapper over one destination
MapInput(scheme, input, target, strict, saveOk) ==
  [scheme |-> scheme, input |-> input, target |-> target, strict |-> strict, saveOk |-> saveOk]

mulipea_tag_to_mp4(m) ==
  LET st == map_from(m, MapState(m.target, <<>>, 0, 0, <<>>, <<>>, <<>>, <<>>, FALSE), 1)
  IN [target |-> st.target, writes |-> st.writes, attempted |-> st.attempted,
      succeeded |-> st.succeeded, failed |-> st.failed, skipped |-> st.skipped,
      visited |-> st.visited, started |-> st.started, raised |-> st.stopped,
      saveAttempted |-> ~st.stopped, saved |-> ~st.stopped /\ can_save(m, st.target)]

\* the file the next run finds: what the run saved, or the file as it was
file_after(m, r) == IF r.saved THEN r.target ELSE m.target

\* the tags of a source file: the keys given a value (<<>> leaves a key out)
SourceTags(choice) == [k \in {k \in DOMAIN choice : choice[k] # <<>>} |-> choice[k]]

\* a destination the muxer wrote nothing to, and one it filled every mapped
\* tag of, as the tagging library reads them from the file
BareTarget == [tag \in DestTags |-> NoValue]
PopulatedTarget ==
  [tag \in DestTags |->
     IF tag \in {"trkn", "disk"} THEN PairsValue(1, 0)
     ELSE IF TAGS_TO_KEEP[tag] = "int" THEN IntsValue(1)
     ELSE IF TAGS_TO_KEEP[tag] = "bool" THEN BoolValue(TRUE)
     ELSE TextsValue(<<"m">>)]

\* the track tag of a destination: absent, read from a file, or left in
\* memory by an earlier assignment
TrackValues ==
  {NoValue, PairsValue(5, 0), PairsValue(5, 12), PairsValue(3, 0), EmptyValue,
   TupleValue(5, 0), IntValue(5)}

InitTags ==
  /\ IdleSystem
  /\ \/ \E tracknumber \in {<<>>, <<<<"5">>>>, <<<<"0">>>>, <<<<"5", "/", "1", "2">>>>,
                            <<<<"5">>, <<"6">>>>},
           tracktotal \in {<<>>, <<<<"1", "2">>>>, <<<<"x">>>>},
           album \in {<<>>, <<<<"x">>>>},
           disctotal \in {<<>>, <<<<"2">>>>},
           bpm \in {<<>>, <<<<"1", "2", "0">>>>},
           compilation \in {<<>>, <<<<"1">>>>},
           base \in {BareTarget, PopulatedTarget}, track \in TrackValues,
           strict \in BOOLEAN, saveOk \in BOOLEAN :
          call = NewCall("tag_vorbis_to_mp4",
                         MapInput("vorbis",
                                  SourceTags([tracknumber |-> tracknumber, tracktotal |-> tracktotal,
                                              album |-> album, disctotal |-> disctotal, bpm |-> bpm,
                                              compilation |-> compilation]),
                                  [base EXCEPT !["trkn"] = track], strict, saveOk))
     \/ \E TRCK \in {<<>>, <<<<"5", "/", "1", "2">>>>, <<<<"5">>>>, <<<<"x", "/", "1", "2">>>>,
                     <<<<"5", "/", "1", "2", "/", "3">>>>},
           TRACKTOTAL \in {<<>>, <<<<"1", "2">>>>},
           TALB \in {<<>>, <<<<"x">>>>},
           TBPM \in {<<>>, <<<<"1", "2", "0">>>>},
           TCMP \in {<<>>, <<<<"1">>>>},
           MVIN \in {<<>>, <<<<"1", "/", "3">>>>},
           TPOS \in {<<>>, <<<<"1", "/", "2">>>>},
           base \in {BareTarget, PopulatedTarget}, track \in TrackValues,
           strict \in BOOLEAN, saveOk \in BOOLEAN :
          call = NewCall("tag_id3_to_mp4",
                         MapInput("id3",
                                  SourceTags(("TRCK" :> TRCK) @@ ("TXXX:TRACKTOTAL" :> TRACKTOTAL)
                                             @@ ("TALB" :> TALB) @@ ("TBPM" :> TBPM)
                                             @@ ("TCMP" :> TCMP) @@ ("MVIN" :> MVIN)
                                             @@ ("TPOS" :> TPOS)),
                                  [base EXCEPT !["trkn"] = track], strict, saveOk))

\* the file a run starts from: the file as drawn, or as the run before left it
file_before(c) ==
  IF c.ret = <<>> THEN c.arg.target ELSE file_after(c.ret[Len(c.ret)].input, c.ret[Len(c.ret)].run)

\* a run of a mapper over the pair of files, at most MaxRuns times in a row
run_mapper(c) ==
  LET m == [c.arg EXCEPT !.target = file_before(c)]
  IN [c EXCEPT !.ret = Append(@, [input |-> m, run |-> mulipea_tag_to_mp4(m)]),
               !.done = (Len(c.ret) + 1 = MaxRuns)]

call_tag_vorbis_to_mp4 ==
  /\ call.fn = "tag_vorbis_to_mp4"
  /\ ~call.done
  /\ call' = run_mapper(call)
  /\ UNCHANGED systemVars

call_tag_id3_to_mp4 ==
  /\ call.fn = "tag_id3_to_mp4"
  /\ ~call.done
  /\ call' = run_mapper(call)
  /\ UNCHANGED systemVars

NextTags == call_tag_vorbis_to_mp4 \/ call_tag_id3_to_mp4

SpecTags == InitTags /\ [][NextTags]_vars

\* ------------------------------------------------------ metadata transfer
\* what mutagen.File(path) does: hands back the file's metadata ("ok"),
\* returns None for a file it does not recognise ("none"), or raises
Loads == {"ok", "none", "raises"}

\* the class mutagen gives the input's metadata
InputClasses == {"MP3", "OggVorbis", "FLAC", "MP4", "OggOpus"}

\* lines 857-885: the case of the match statement on the input's class
mapper_case(cls) ==
  IF cls = "MP3" THEN "id3"
  ELSE IF cls \in {"OggVorbis", "FLAC"} THEN "vorbis"
  ELSE IF cls = "MP4" THEN "skip"
  ELSE "unsupported"

\* lines 817-886: whether _mulipea_tag_mapper returns the target's metadata
\* (TRUE) or None (FALSE); the try block covers both loads
mapper_handle(targetLoad, inputLoad, cls) ==
  IF targetLoad # "ok" THEN FALSE
  ELSE IF inputLoad = "none" THEN TRUE
  ELSE IF inputLoad = "raises" THEN FALSE
  ELSE mapper_case(cls) # "unsupported"

\* a call of the metadata copy: the muxer's exit status, whether its output
\* is there, the two loads, the class of the input, and the field pass
TransferInput(rc, exists, targetLoad, inputLoad, cls, fields) ==
  [rc |-> rc, exists |-> exists, targetLoad |-> targetLoad, inputLoad |-> inputLoad,
   cls |-> cls, fields |-> fields]

\* _mulipea_tag_mapper: the handle, and the field pass when one was run
mulipea_tag_mapper(t) ==
  LET ran == /\ t.targetLoad = "ok" /\ t.inputLoad = "ok"
             /\ mapper_case(t.cls) \in {"id3", "vorbis"}
  IN [handle |-> mapper_handle(t.targetLoad, t.inputLoad, t.cls),
      pass |-> IF ran
               THEN <<mulipea_tag_to_mp4([t.fields EXCEPT !.scheme = mapper_case(t.cls)])>>
               ELSE <<>>]

\* lines 987-1011 of _mulipea_copy_metadata: the muxer's two checks, then the
\* mapper and the test of its handle
copy_metadata(t) ==
  IF (t.rc # 0) \/ (~t.exists)
  THEN [ret |-> FALSE, mapperCalled |-> FALSE, pass |-> <<>>]
  ELSE LET got == mulipea_tag_mapper(t)
       IN [ret |-> mulipea_copy_metadata(MetaRun(t.rc, t.exists, got.handle)),
           mapperCalled |-> TRUE, pass |-> got.pass]

\* sources whose track field maps, and sources whose track field fails
InitTransfer ==
  /\ IdleSystem
  /\ \E rc \in {0, 1}, exists \in BOOLEAN, targetLoad \in Loads, inputLoad \in Loads,
        cls \in InputClasses, good \in BOOLEAN, strict \in BOOLEAN, saveOk \in BOOLEAN :
       call = NewCall("copy_metadata",
                      TransferInput(rc, exists, targetLoad, inputLoad, cls,
                        MapInput(mapper_case(cls),
                                 IF mapper_case(cls) = "id3"
                                 THEN SourceTags(("TRCK" :> <<IF good THEN <<"5", "/", "1", "2">>
                                                              ELSE <<"x", "/", "1", "2">>>>)
                                                 @@ ("TALB" :> <<<<"x">>>>))
                                 ELSE SourceTags([tracknumber |-> <<<<"5">>>>,
                                                  tracktotal |-> <<IF good THEN <<"1", "2">>
                                                                   ELSE <<"x">>>>,
                                                  album |-> <<<<"x">>>>]),
                                 [BareTarget EXCEPT !["trkn"] = PairsValue(5, 0)],
                                 strict, saveOk)))

call_copy_metadata ==
  /\ call.fn = "copy_metadata"
  /\ ~call.done
  /\ call' = [call EXCEPT !.done = TRUE, !.ret = copy_metadata(call.arg)]
  /\ UNCHANGED systemVars

NextTransfer == call_copy_metadata

SpecTransfer == InitTransfer /\ [][NextTransfer]_vars

\* ------------------------------------------------------------ result type
\* result_type.py. A str is the sequence of its characters; the name of an
\* exception class stands for its characters as one element.
\* an exception: its class, whether the class derives from Exception (or only
\* from BaseException), and str(exception)
Error(name, isException, message) == [name |-> name, isException |-> isException, message |-> message]
None == [name |-> "None", isException |-> FALSE, message |-> <<>>]

\* Result(value, error=None)
Result(value, error) == [value |-> value, error |-> error]

\* the outcome of a call: a value returned or an exception raised
Returned(v) == [raised |-> FALSE, value |-> v, error |-> None]
Raised(e) == [raised |-> TRUE, value |-> <<>>, error |-> e]

\* a truth test that looks at the value
result_bool_of_value(r) == r.value # <<>>

\* Result.__bool__
result_bool(r) == r.error = None

\* Result.cry
result_cry(r, string) ==
  IF r.error # None THEN
    IF string
    THEN Returned(IF r.error.message # <<>>
                  THEN r.error.message \o <<" ", "(", r.error.name, ")">>
                  ELSE <<r.error.name>>)
    ELSE Raised(r.error)
  ELSE Returned(<<>>)

\* Result.get
result_get(r) == IF r.error # None THEN Raised(r.error) ELSE Returned(r.value)

\* a wrapper whose except clause raises the exception again
result_wrap_reraises(default, body) ==
  IF ~body.raised THEN Returned(Result(body.value, None))
  ELSE Raised(body.error)

\* the wrapper made by _result_wrap(default), given what the wrapped body
\* did; "except Exception" lets through what is only a BaseException
result_wrap(default, body) ==
  IF ~body.raised THEN Returned(Result(body.value, None))
  ELSE IF body.error.isException THEN Returned(Result(default, body.error))
  ELSE Raised(body.error)

\* File.resolve_mtime, File.resolve_checksum and File.resolve, given the
\* fields of the File and what stat() and read_bytes() do
resolve_mtime(file, env) ==
  result_wrap(<<"0.0">>, IF file.mtime = <<"0.0">> THEN env.stat ELSE Returned(file.mtime))
resolve_checksum(file, env) ==
  result_wrap(<<>>, IF file.checksum # <<>> THEN Returned(file.checksum) ELSE env.read)
resolve(file, env) ==
  LET mtime == resolve_mtime(file, env)
      got_mtime == IF mtime.raised THEN mtime ELSE result_get(mtime.value)
      checksum == resolve_checksum(file, env)
      got_checksum == IF checksum.raised THEN checksum ELSE result_get(checksum.value)
  IN result_wrap(None,
                 IF got_mtime.raised THEN got_mtime
                 ELSE IF got_checksum.raised THEN got_checksum
                 ELSE Returned(None))

\* the values and the exceptions the calls are drawn with
ResultValues == {<<>>, <<"a">>, <<"0.0">>}
Errors ==
  {Error(n, TRUE, m) : n \in {"ValueError", "OSError"}, m \in {<<>>, <<"m">>}}
  \cup {Error("KeyboardInterrupt", FALSE, <<>>)}

InitResult ==
  /\ IdleSystem
  /\ \/ \E v \in ResultValues, e \in Errors \cup {None} :
          call = NewCall("result", Result(v, e))
     \/ \E d \in ResultValues, v \in ResultValues, e \in Errors, r \in BOOLEAN :
          call = NewCall("wrapped", [default |-> d, body |-> IF r THEN Raised(e) ELSE Returned(v)])
     \/ \E mtime \in {<<"0.0">>, <<"1.5">>}, checksum \in {<<>>, <<"c">>},
           stat \in {Returned(<<"2.5">>)} \cup {Raised(e) : e \in Errors},
           read \in {Returned(<<"d">>)} \cup {Raised(e) : e \in Errors} :
          call = NewCall("resolve", [file |-> [mtime |-> mtime, checksum |-> checksum],
                                     env |-> [stat |-> stat, read |-> read]])

\* bool(result), result.get(), result.cry() and result.cry(string=True)
call_result ==
  /\ call.fn = "result"
  /\ ~call.done
  /\ call' = [call EXCEPT !.done = TRUE,
                          !.ret = [bool |-> result_bool(call.arg), get |-> result_get(call.arg),
                                   cry |-> result_cry(call.arg, FALSE),
                                   cry_string |-> result_cry(call.arg, TRUE)]]
  /\ UNCHANGED systemVars

call_wrapped ==
  /\ call.fn = "wrapped"
  /\ ~call.done
  /\ call' = [call EXCEPT !.done = TRUE, !.ret = result_wrap(call.arg.default, call.arg.body)]
  /\ UNCHANGED systemVars

call_resolve ==
  /\ call.fn = "resolve"
  /\ ~call.done
  /\ call' = [call EXCEPT !.done = TRUE, !.ret = resolve(call.arg.file, call.arg.env)]
  /\ UNCHANGED systemVars

NextResult == call_result \/ call_wrapped \/ call_resolve

SpecResult == InitResult /\ [][NextResult]_vars

\* ------------------------------------------------------------------ claims
TargetSet == {targets[k] : k \in 1..Len(targets)}
Failed(f) == result[f] \in {"exhausted", "crashed"}
Exited(f) == pc[f] \in {"done", "crashed"}
Reported == opc = "exit" /\ report.printed \in {"nay", "yay"}

\* C1: a task whose output was absent and whose every attempt failed has run
\* its handler exactly MAX_RETRY_ATTEMPTS times, and at worker exit its log
\* file is retained and no file exists at its output path.
C1_RetryBound ==
  \A f \in Files :
    result[f] = "exhausted" =>
      /\ runs[f] = MAX_RETRY_ATTEMPTS
      /\ f \in logOn
      /\ dest[mulipea_common_prehandle(f)] = Absent

\* C2: a task skipped because its output already exists has started no
\* external tool (the probe included) and leaves no log file.
C2_SkipIfExists ==
  \A f \in Files :
    result[f] = "skipped" => tools[f] = {} /\ f \notin logOn

C4_Exhaustion ==
  \A f \in Files :
    result[f] = "exhausted" =>
      /\ f \in logOn
      /\ buf[f] = <<>>
      /\ runs[f] = MAX_RETRY_ATTEMPTS
      /\ log[f] # <<>>
      /\ log[f][Len(log[f])] = MarkerLine

\* C5: the processes main tracks, and so the workers alive, never outnumber
\* the worker budget.
C5_BoundedParallelism ==
  /\ Len(processes) <= workers
  /\ Cardinality({f \in Files : pc[f] # "new" /\ is_alive(f)}) <= workers
  /\ \A f \in Files : pc[f] # "new" /\ is_alive(f) => \E k \in 1..Len(processes) : processes[k] = f

C5_Witness ==
  /\ opc = "for"
  /\ Len(processes) = workers
  /\ \A k \in 1..Len(processes) : is_alive(processes[k])
  /\ idx <= Len(targets)

\* C6: at the final report the log files present are exactly the failed tasks
\* of this run, the count printed equals the number of paths listed, and the
\* success banner is printed exactly when no task failed.
C6_FinalReport ==
  Reported =>
    /\ logOn = {f \in TargetSet : Failed(f)}
    /\ report.count = Cardinality(report.listed)
    /\ (report.printed = "yay") <=> ({f \in TargetSet : Failed(f)} = {})

\* C7: in the messages a worker posts under its key, a removal is the last:
\* nothing is posted after it, on the skip path and on the loop path alike.
C7_RemovalIsLast ==
  \A f \in Files :
    \A k \in 1..Len(sent[f]) : sent[f][k] = "remove" => k = Len(sent[f])

C7_Witness ==
  /\ \E f \in Files : result[f] = "skipped" /\ sent[f] = <<"remove">>
  /\ \E f \in Files : result[f] = "ok" /\ sent[f] = <<"update", "remove">>

\* C8: the router picks the pass-through handler exactly for the codec "aac",
\* the direct-encode handler exactly for "alac", and the generic handler for
\* anything else, a non-zero probe exit (empty result) included.
C8_RouteSelection ==
  (call.fn = "route" /\ call.done /\ ~call.ret.raised) =>
    /\ call.ret.route \in Routes
    /\ (call.ret.route = "aac") <=> (call.ret.codec = <<"aac">>)
    /\ (call.ret.route = "alac") <=> (call.ret.codec = <<"alac">>)
    /\ call.arg.rc # 0 => call.ret.codec = <<>> /\ call.ret.route = "generic"
    /\ (call.arg.rc = 0 /\ call.arg.out = <<"aac", "\n">>) => call.ret.route = "aac"
    /\ (call.arg.rc = 0 /\ call.arg.out = <<"alac", "\n">>) => call.ret.route = "alac"
    /\ (call.arg.rc = 0 /\ call.arg.out = <<"mp3", "\n">>) => call.ret.route = "generic"

C8_Witness ==
  /\ call.fn = "route" /\ call.done
  /\ call.arg.how = "ran" /\ call.arg.rc # 0 /\ call.arg.out = <<"aac", "\n">>
  /\ call.ret.route = "generic"

\* C9: whatever way the probe fails, the worker gets a route and goes on: once
\* past the probe no worker has ended on an exception.
C9_ProbeNeverRaises ==
  \A f \in Files :
    pc[f] \notin {"new", "open", "probe"} => route[f] \in Routes /\ result[f] # "crashed"

StepRank(step) ==
  IF step = "probe" THEN 0
  ELSE IF step \in {"copy", "wav", "aac"} THEN 1
  ELSE IF step = "metadata" THEN 2
  ELSE IF step = "standardise" THEN 3
  ELSE 4

\* whether a step succeeded, read off what the attempt met
StepOk(step, a) ==
  IF step = "probe" THEN a.probe.how = "ran" \/ (a.probe.how = "undecodable" /\ a.probe.rc # 0)
  ELSE IF step = "copy" THEN a.env.copy
  ELSE IF step = "wav" THEN a.env.wav.rc = 0 /\ a.env.wav.exists /\ a.env.wav.mv
  ELSE IF step = "aac" THEN a.env.aac.rc = 0 /\ a.env.aac.exists /\ a.env.aac.mv
  ELSE IF step = "metadata"
    THEN a.env.meta.rc = 0 /\ a.env.meta.exists /\ a.env.meta.readable
  ELSE IF step = "standardise" THEN a.env.std
  ELSE a.env.mv

\* C11: within one attempt the steps run in the order probe, convert,
\* metadata transfer, standardise, relocate, each at most once; every step
\* but the last returned success, a failing step is the last one run, and
\* the attempt succeeds exactly when it got to relocate and every step
\* succeeded.
C11_StepOrder ==
  (call.fn = "encode_once" /\ call.done) =>
    LET s == call.ret.steps IN
    /\ s # <<>> /\ s[1] = "probe"
    /\ \A i, j \in 1..Len(s) :
         i < j => /\ StepRank(s[i]) <= StepRank(s[j])
                  /\ s[i] # s[j]
                  /\ (s[i] = "aac" => s[j] # "wav")
    /\ \A k \in 1..Len(s) : (k < Len(s) => StepOk(s[k], call.arg))
    /\ \A k \in 1..Len(s) : (~StepOk(s[k], call.arg) => k = Len(s))
    /\ (\A k \in 1..Len(s) : StepOk(s[k], call.arg)) => s[Len(s)] = "relocate"
    /\ call.ret.ret <=> (s[Len(s)] = "relocate" /\ \A k \in 1..Len(s) : StepOk(s[k], call.arg))
    /\ "standardise" \in {s[k] : k \in 1..Len(s)} =>
         \E k \in 1..Len(s) : StepRank(s[k]) = 1

C11_Witness ==
  /\ call.fn = "encode_once" /\ call.done
  /\ call.ret.route = "generic"
  /\ call.ret.steps = <<"probe", "wav", "aac", "metadata">>
  /\ ~call.arg.env.meta.readable /\ ~call.arg.env.std
  /\ ~call.ret.ret

\* C12: in every route an attempt in which standardisation failed does not
\* move its intermediate to the destination, and an attempt that moved it
\* there ran the standardiser and got success from it.
C12_NoPromotionAfterStdFailure ==
  (call.fn = "encode_once" /\ call.done) =>
    LET s == call.ret.steps
        ran == {s[k] : k \in 1..Len(s)}
    IN /\ ("standardise" \in ran /\ ~call.arg.env.std) =>
            (~call.ret.moved /\ "relocate" \notin ran /\ ~call.ret.ret)
       /\ call.ret.moved => ("standardise" \in ran /\ call.arg.env.std)

C12_Witness ==
  /\ call.fn = "encode_once" /\ call.done
  /\ call.ret.route = "aac"
  /\ call.arg.env.copy /\ ~call.arg.env.std /\ call.arg.env.mv
  /\ call.ret.steps = <<"probe", "copy", "standardise">>
  /\ ~call.ret.moved

\* the lines of a text, cut at every "\n"
TextLines(t) == splitlines(t)

\* what the rule makes of one line: the text after the first bracket when the
\* line begins with "[", has a "]" and everything between them other than
\* ":" and "." is a digit; the line itself otherwise; trimmed either way
ExpectedLine(line) ==
  LET close == IF \E i \in 1..Len(line) : line[i] = "]"
               THEN CHOOSE i \in 1..Len(line) : line[i] = "]" /\ \A j \in 1..(i - 1) : line[j] # "]"
               ELSE 0
      stamped == /\ line # <<>> /\ line[1] = "["
                 /\ close > 0
                 /\ \A k \in 2..(close - 1) : line[k] \in Digits \cup {":", "."}
  IN IF stamped THEN strip(SubSeq(line, close + 1, Len(line))) ELSE strip(line)

\* C19: every line of the (trimmed) lyrics is replaced by the text after its
\* first bracket when that bracket holds only digits, ":" and ".", and is
\* kept otherwise, trimmed in both cases; the result is the lines joined
\* again and trimmed.
C19_LyricsCleanup ==
  (call.fn = "clean_up_lyrics" /\ call.done) =>
    LET lines == TextLines(strip(call.arg))
    IN /\ call.ret = strip(join([k \in 1..Len(lines) |-> ExpectedLine(lines[k])]))
       /\ (Len(lines) = 1) => call.ret = ExpectedLine(lines[1])

C19_Witness ==
  /\ call.fn = "clean_up_lyrics" /\ call.done
  /\ call.arg = <<"[", "0", ":", "]", "a">>
  /\ call.ret = <<"a">>

\* the four minimum fields: album, artist, title, track number
MinimumFields == {"xa9alb", "xa9ART", "xa9nam", "trkn"}

\* C13: the standardiser goes past its first check only if the file's tags
\* hold all four minimum fields; with one missing it returns failure right
\* after that check: no pruning, cover, lyrics, swap or stamp step has run,
\* the tags are as they were loaded and nothing was saved.
C13_MinimumFieldGate ==
  (call.fn = "standardise" /\ call.done /\ call.arg.loadable) =>
    /\ ~(MinimumFields \subseteq call.arg.tags) =>
         /\ ~call.ret.ret
         /\ call.ret.steps = <<"load", "gate">>
         /\ call.ret.tags = call.arg.tags
         /\ ~call.ret.saved /\ ~call.ret.searched /\ call.ret.attached = NoEntry
    /\ Len(call.ret.steps) > 2 => MinimumFields \subseteq call.arg.tags
    /\ call.ret.ret => MinimumFields \subseteq call.arg.tags

C13_Witness ==
  /\ call.fn = "standardise" /\ call.done /\ call.arg.loadable /\ call.arg.saveOk
  /\ call.arg.tags = {"xa9alb", "xa9ART", "xa9nam", "xa9grp", "xa9too"}
  /\ call.arg.lrc.exists
  /\ ~call.ret.ret /\ call.ret.steps = <<"load", "gate">>

\* the files of a listing that are named "cover", in any case, with a
\* supported image extension
Candidates(dir) ==
  {dir[k] : k \in {j \in 1..Len(dir) : /\ dir[j].stem \in {"cover", "Cover"}
                                       /\ dir[j].suffix \in {".jpg", ".PNG"}}}

\* C20: with no embedded cover, the candidate the standardiser picks, and
\* attaches when it succeeds, is a file named "cover" with an image
\* extension and no such file is larger; with an embedded cover the
\* directory is not searched and nothing is attached.
C20_CoverSelection ==
  (call.fn = "standardise" /\ call.done /\ call.arg.loadable
     /\ MinimumFields \subseteq call.arg.tags) =>
    /\ call.arg.covers # <<>> => (~call.ret.searched /\ call.ret.attached = NoEntry)
    /\ (call.arg.covers = <<>> /\ call.ret.ret) =>
         /\ call.ret.searched
         /\ Candidates(call.arg.dir) = {} => call.ret.attached = NoEntry
         /\ Candidates(call.arg.dir) # {} =>
              /\ call.ret.attached \in Candidates(call.arg.dir)
              /\ \A c \in Candidates(call.arg.dir) : c.size <= call.ret.attached.size
    /\ call.ret.picked # NoEntry =>
         /\ call.ret.picked \in Candidates(call.arg.dir)
         /\ \A c \in Candidates(call.arg.dir) : c.size <= call.ret.picked.size
    /\ call.ret.attached # NoEntry => call.ret.attached = call.ret.picked

C20_Witness ==
  /\ call.fn = "standardise" /\ call.done /\ call.ret.ret
  /\ call.arg.covers = <<>>
  /\ call.arg.dir = <<Entry("cover", ".jpg", 10), Entry("Cover", ".PNG", 40),
                      Entry("Cover", ".jpg", 25)>>
  /\ call.ret.attached = Entry("Cover", ".PNG", 40)

\* the last run of a mapper call, and the file it started from
LastRun == call.ret[Len(call.ret)].run
LastInput == call.ret[Len(call.ret)].input
MapperRan == call.fn \in {"tag_vorbis_to_mp4", "tag_id3_to_mp4"} /\ call.ret # <<>>

\* C14: after a pass over a Vorbis-comment source with tracknumber=5 and
\* tracktotal=12, the destination's track field is the pair (5, 12), whether
\* the muxer had left the field out or had written the track number itself.
C14_VorbisTrackPair ==
  ( /\ MapperRan /\ call.fn = "tag_vorbis_to_mp4"
    /\ input_value(LastInput.input, "tracknumber") = <<<<"5">>>>
    /\ input_value(LastInput.input, "tracktotal") = <<<<"1", "2">>>>
    /\ LastInput.target["trkn"] \in {NoValue, PairsValue(5, 0), PairsValue(5, 12)} )
  => LastRun.target["trkn"] = PairsValue(5, 12)

\* the frame has the combined form "N/M": two runs of digits around one slash
IsCombined(text) ==
  /\ text # <<>>
  /\ Len(split_slash(text[1])) = 2
  /\ can_int(split_slash(text[1])[1]) /\ can_int(split_slash(text[1])[2])

\* C15: after a pass over an ID3 source whose track (disc) frame reads "N/M",
\* the destination's track (disc) field is the one pair (N, M) of integers,
\* whatever the field held before the pass.
C15_Id3CombinedFrame ==
  (MapperRan /\ call.fn = "tag_id3_to_mp4") =>
    \A e \in {<<"TRCK", "trkn">>, <<"TPOS", "disk">>} :
      LET text == input_value(LastInput.input, e[1]) IN
      IsCombined(text) =>
        /\ LastRun.target[e[2]] = PairsValue(int(split_slash(text[1])[1]), int(split_slash(text[1])[2]))
        /\ (text = <<<<"5", "/", "1", "2">>>> => LastRun.target[e[2]] = PairsValue(5, 12))
        /\ (text = <<<<"1", "/", "2">>>> => LastRun.target[e[2]] = PairsValue(1, 2))

\* a pass that replaced the muxer's track 3 by the frame's 5/12 and wrote the
\* disc pair 1/2 over the muxer's
C15_Witness ==
  /\ MapperRan /\ call.fn = "tag_id3_to_mp4"
  /\ input_value(LastInput.input, "TRCK") = <<<<"5", "/", "1", "2">>>>
  /\ input_value(LastInput.input, "TPOS") = <<<<"1", "/", "2">>>>
  /\ input_value(LastInput.input, "TXXX:TRACKTOTAL") = <<<<"1", "2">>>>
  /\ LastInput.target["trkn"] = PairsValue(3, 0)
  /\ LastInput.target["disk"] = PairsValue(1, 0)
  /\ LastRun.target["trkn"] = PairsValue(5, 12)
  /\ LastRun.target["disk"] = PairsValue(1, 2)

\* the assignments a run made to replace-kind fields (index 0 in the table)
ReplaceWrites(run) == {run.writes[k] : k \in {k \in 1..Len(run.writes) : run.writes[k].index = 0}}

\* every mapped destination field is present
FullyPopulated(target) == \A tag \in DestTags : target[tag].shape # "absent"

TotalWrites(run) == {run.writes[k] : k \in {k \in 1..Len(run.writes) : run.writes[k].index = 2}}

\* C17: in either scheme a second-of-pair entry assigns the track or disc
\* field only over a non-empty list of pairs, whose first component it keeps:
\* it makes no assignment when the field is absent or holds anything else, so
\* no pair is ever made of a total alone, and no exception leaves the pass.
C17_NoInventedTotal ==
  MapperRan =>
    /\ ~LastRun.raised
    /\ \A w \in TotalWrites(LastRun) :
         /\ w.before.shape = "pairs"
         /\ w.value.shape = "pairs" /\ w.value.n = w.before.n
    /\ \A tag \in {"trkn", "disk"} :
         (LastInput.target[tag].shape = "absent" /\ LastRun.target[tag].shape = "pairs")
           => \E k \in 1..Len(LastRun.writes) :
                LastRun.writes[k].to = tag /\ LastRun.writes[k].index = 1

\* a Vorbis source with a track total and no track number, over a destination
\* without the track field: the entry is skipped and the field stays absent
C17_Witness ==
  /\ MapperRan /\ call.fn = "tag_vorbis_to_mp4"
  /\ input_value(LastInput.input, "tracktotal") = <<<<"1", "2">>>>
  /\ input_value(LastInput.input, "tracknumber") = <<>>
  /\ LastInput.target["trkn"] = NoValue
  /\ \E k \in 1..Len(LastRun.skipped) : LastRun.skipped[k] = "tracktotal"
  /\ TotalWrites(LastRun) = {}
  /\ LastRun.target["trkn"] = NoValue

\* the assignments to a tag that took effect in a run, by position
Landed(run, tag) == {k \in 1..Len(run.writes) : run.writes[k].to = tag /\ run.writes[k].landed}
Last(S) == CHOOSE k \in S : \A j \in S : j <= k

\* C18: a failure while mapping one table entry is caught and recorded and
\* changes no destination field: after the pass each field holds the last
\* value assigned to it with success, or what it held before the pass. Every
\* entry of the table is processed, in order, the save is attempted, and no
\* exception leaves the pass.
C18_FaultIsolation ==
  MapperRan =>
    /\ ~LastRun.raised
    /\ LastRun.saveAttempted
    /\ LastRun.visited = [k \in 1..Len(tags_map(LastInput.scheme)) |-> tags_map(LastInput.scheme)[k].from]
    /\ \A tag \in DestTags :
         LastRun.target[tag] =
           IF Landed(LastRun, tag) = {} THEN LastInput.target[tag]
           ELSE LastRun.writes[Last(Landed(LastRun, tag))].value
    /\ \A k \in 1..Len(LastRun.writes) :
         ~LastRun.writes[k].landed =>
           \E j \in 1..Len(LastRun.failed) : LastRun.failed[j].from = LastRun.writes[k].from

\* an ID3 pass whose track frame "x/12" cannot be converted: the failure is
\* recorded, the track field keeps the muxer's value, and the disc frame
\* further down the table is mapped and the save attempted
C18_Witness ==
  /\ MapperRan /\ call.fn = "tag_id3_to_mp4"
  /\ input_value(LastInput.input, "TRCK") = <<<<"x", "/", "1", "2">>>>
  /\ input_value(LastInput.input, "TPOS") = <<<<"1", "/", "2">>>>
  /\ LastInput.target["trkn"] = PairsValue(3, 0)
  /\ \E j \in 1..Len(LastRun.failed) : LastRun.failed[j].from = "TRCK"
  /\ LastRun.target["trkn"] = PairsValue(3, 0)
  /\ LastRun.target["disk"] = PairsValue(1, 2)
  /\ LastRun.saveAttempted

\* C21: whatever the tools, the tag library and the file system do, a worker
\* that has ended returned from mulipea_encode with its task succeeded,
\* skipped, or retried to exhaustion with its log retained.
C21_NothingEscapes ==
  \A f \in Files :
    Exited(f) =>
      /\ pc[f] = "done"
      /\ result[f] \in {"ok", "skipped", "exhausted"}
      /\ (result[f] = "exhausted" => f \in logOn)

\* nothing has been launched or written since the discovery
NothingStarted ==
  /\ \A f \in Files : pc[f] = "new" /\ tools[f] = {} /\ runs[f] = 0
  /\ \A f \in Files : log[f] = IF f \in logOn THEN <<Line("earlier-run")>> ELSE <<>>
  /\ processes = <<>> /\ display = {}

\* C22: the work list holds, once each, exactly the files whose suffix is a
\* supported one and whose mirrored output does not exist when main looks;
\* when it is empty main exits with "nothing to do", having launched no
\* worker and created no log file.
C22_Discovery ==
  /\ (opc = "for" /\ idx = 1 /\ processes = <<>>) =>
       /\ TargetSet = {f \in Files : tree[f].suffix \in {".m4a", ".mp3", ".ogg", ".flac"}
                                      /\ dest[tree[f].stem] = Absent}
       /\ Cardinality(TargetSet) = Len(targets)
       /\ NothingStarted
  /\ (opc # "discover" /\ targets = <<>>) =>
       /\ opc = "exit" /\ report.printed = "nothing to do"
       /\ NothingStarted
       /\ \A f \in Files : tree[f].suffix \notin {".m4a", ".mp3", ".ogg", ".flac"}
                             \/ dest[tree[f].stem] # Absent
  /\ report.printed = "nothing to do" => targets = <<>>

\* the work list of a tree with an audio file and a picture, both without an
\* output: the picture is left out
C22_Witness ==
  /\ opc = "for" /\ idx = 1 /\ processes = <<>>
  /\ tree = TreeMixed
  /\ \A o \in Outputs : dest[o] = Absent
  /\ TargetSet = Files \ {NumFiles}
  /\ tree[NumFiles].suffix = ".jpg"

\* the workers whose handler is running, and the paths a worker's handler uses
InHandler(f) == pc[f] = "handler"
ScratchPaths(f) == intermediates(route[f], tmp[f], tree[f])

\* C23: a handler that is running works in a temporary directory of its own:
\* no two handlers running at the same time have an intermediate path in
\* common, and a worker whose handler is not running (its attempt has ended,
\* with success or not) holds no temporary directory.
C23_ScratchExclusivity ==
  /\ \A f \in Files : InHandler(f) <=> tmp[f] # NoDir
  /\ \A f, g \in Files :
       (f # g /\ InHandler(f) /\ InHandler(g)) =>
         /\ tmp[f] # tmp[g]
         /\ ScratchPaths(f) \cap ScratchPaths(g) = {}

\* two sources with the same relative stem in their handlers at once, the
\* second one in a retry after its first attempt gave its directory back
C23_Witness ==
  /\ tree = TreePaired
  /\ InHandler(1) /\ InHandler(2)
  /\ route[1] = route[2]
  /\ attempts[2] = 2
  /\ tmp[1] # tmp[2]

C25_ResultWrap ==
  /\ (call.fn = "wrapped" /\ call.done) =>
       LET b == call.arg.body
           o == call.ret
       IN /\ (b.raised /\ b.error.isException) => ~o.raised
          /\ ~b.raised => o = Returned(Result(b.value, None))
          /\ (b.raised /\ b.error.isException) => o = Returned(Result(call.arg.default, b.error))
          /\ ~o.raised => ((o.value.error.name # "None") <=> b.raised)
  /\ (call.fn = "resolve" /\ call.done) =>
       LET needStat == call.arg.file.mtime = <<"0.0">>
           needRead == call.arg.file.checksum = <<>>
           stat == call.arg.env.stat
           read == call.arg.env.read
           failedStat == needStat /\ stat.raised
           failedRead == needRead /\ read.raised
           o == call.ret
       IN /\ (failedStat /\ stat.error.isException) =>
               (~o.raised /\ o.value.error = stat.error)
          /\ (~failedStat /\ failedRead /\ read.error.isException) =>
               (~o.raised /\ o.value.error = read.error)
          /\ (~failedStat /\ ~failedRead) => (~o.raised /\ o.value.error.name = "None")

\* a body that raised OSError under the default "a"
C25_Witness ==
  /\ call.fn = "wrapped" /\ call.done
  /\ call.arg.default = <<"a">>
  /\ call.arg.body = Raised(Error("OSError", TRUE, <<"m">>))
  /\ call.ret = Returned(Result(<<"a">>, Error("OSError", TRUE, <<"m">>)))

Count(seq, x) == Cardinality({k \in 1..Len(seq) : seq[k] = x})
Place(seq, x, n) == CHOOSE k \in 1..Len(seq) : seq[k] = x /\ Count(SubSeq(seq, 1, k), x) = n

\* the handler calls of a worker that have returned
Returned_calls(f) == IF pc[f] = "handler" THEN runs[f] - 1 ELSE runs[f]

\* C27: the attempt counter starts at 1 and never passes
\* MAX_RETRY_ATTEMPTS + 1; it stands one above the number of failed attempts,
\* a successful attempt leaving it as it is; while the log exists it holds
\* (in the file or still in the stream's buffer) one separator line per failed
\* attempt, and one retry header for each attempt n > 1 made, written before
\* the lines of that attempt.
C27_AttemptAccounting ==
  \A f \in Files :
    /\ attempts[f] \in 1..(MAX_RETRY_ATTEMPTS + 1)
    /\ runs[f] = 0 => attempts[f] = 1
    /\ attempts[f] - 1 = Returned_calls(f) - (IF result[f] = "ok" THEN 1 ELSE 0)
    /\ (result[f] \notin {"ok", "skipped"}) =>
         /\ Count(log[f] \o buf[f], SepLine) = attempts[f] - 1
         /\ Count(log[f], Line("handler-failed")) = attempts[f] - 1
         /\ \A n \in 1..(MAX_RETRY_ATTEMPTS + 1) :
              /\ Count(log[f], RetryLine(n)) = IF 1 < n /\ n <= runs[f] THEN 1 ELSE 0
              /\ (1 < n /\ n <= Returned_calls(f)) =>
                   /\ Place(log[f], Line("handler"), n - 1) < Place(log[f], RetryLine(n), 1)
                   /\ Place(log[f], RetryLine(n), 1) < Place(log[f], Line("handler"), n)

\* a worker in its third attempt after two failed ones: counter 3, two
\* separators, the headers of attempts 2 and 3
C27_Witness ==
  \E f \in Files :
    /\ pc[f] = "handler" /\ attempts[f] = 3 /\ runs[f] = 3
    /\ Count(log[f] \o buf[f], SepLine) = 2
    /\ Count(log[f], RetryLine(2)) = 1 /\ Count(log[f], RetryLine(3)) = 1
    /\ buf[f] = <<SepLine>>

\* the files whose worker process has been started
Launched == {f \in Files : pc[f] # "new"}

\* C28: the targets hold no file twice; at every moment the launched files
\* are exactly the first idx - 1 targets; a worker starts only for the target
\* at the loop's position, which was never started before, and the position
\* then moves on by one; once the launch loop is over every target has been
\* launched, and no file outside the targets ever is.
C28_OneWorkerPerFile ==
  /\ [](/\ \A j, k \in 1..Len(targets) : targets[j] = targets[k] => j = k
        /\ idx \in 1..(Len(targets) + 1)
        /\ Launched = {targets[k] : k \in 1..(idx - 1)}
        /\ opc = "final" \/ Reported => Launched = TargetSet)
  /\ [][\A f \in Files :
          (pc'[f] = "open" /\ pc[f] # "open") =>
            /\ pc[f] = "new"
            /\ f = targets[idx]
            /\ idx' = idx + 1
            /\ processes' = Append(processes, f)
            /\ \A g \in Files \ {f} : pc'[g] = pc[g]]_vars

\* both files were targets, the budget was one process, and the run is over
C28_Witness ==
  /\ Reported
  /\ Len(targets) = NumFiles /\ workers = 1
  /\ Launched = Files
  /\ \A f \in Files : Exited(f)

\* C29: a drained removal message takes the worker's line off the display
\* and its key out of the channel, and when the orchestrator has left its
\* final wait loop the channel is empty and the display holds no worker's
\* line.
C29_DisplayCleanup ==
  /\ [][\A f \in Files :
          (channel[f] = "remove" /\ channel'[f] # "remove") =>
            channel'[f] = "none" /\ f \notin display']_vars
  /\ [](Reported => /\ \A f \in Files : channel[f] = "none"
                    /\ display = {})

\* C30: no worker makes more than MAX_RETRY_ATTEMPTS pipeline attempts, every
\* started worker ends, and the orchestrator ends: with nothing to do when
\* there was no target, otherwise at the final report, having launched every
\* target, seen every worker dead and emptied its list of processes.
C30_Termination ==
  /\ [](\A f \in Files : runs[f] <= MAX_RETRY_ATTEMPTS)
  /\ \A f \in Files : (pc[f] = "open") ~> Exited(f)
  /\ <>(opc = "exit")
  /\ [](opc = "exit" =>
          \/ report.printed = "nothing to do" /\ targets = <<>> /\ Launched = {}
          \/ /\ Reported /\ targets # <<>>
             /\ Launched = TargetSet
             /\ \A f \in TargetSet : Exited(f)
             /\ processes = <<>>)

\* the final report after a worker that used up all its attempts and
\* another that ended in its first
C30_Witness ==
  /\ Reported /\ processes = <<>>
  /\ \E f, g \in TargetSet :
       /\ result[f] = "exhausted" /\ runs[f] = MAX_RETRY_ATTEMPTS
       /\ Exited(g) /\ runs[g] <= 1 /\ f # g

\* C31: when the standardiser returns success, every tag the file then holds
\* is listed in TAGS_TO_KEEP, every listed tag the file came with is still
\* there, and the only tags the file did not come with are the cover and the
\* lyrics.
C31_Pruning ==
  (call.fn = "standardise" /\ call.done /\ call.ret.ret) =>
    /\ call.ret.saved
    /\ call.ret.tags \subseteq DOMAIN TAGS_TO_KEEP
    /\ (call.arg.tags \cap DOMAIN TAGS_TO_KEEP) \subseteq call.ret.tags
    /\ (call.ret.tags \ call.arg.tags) \subseteq {"covr", "xa9lyr"}
    /\ \A k \in 1..Len(call.ret.steps) :
         call.ret.steps[k] = "prune" => k = 3

\* a file that came with the grouping tag, the encoder tag and no cover, and
\* leaves without the first, with the second and with a cover and lyrics
C31_Witness ==
  /\ call.fn = "standardise" /\ call.done /\ call.ret.ret
  /\ call.arg.tags = TAGS_MINIMUM \cup {"xa9grp", "xa9too"}
  /\ call.ret.tags = TAGS_MINIMUM \cup {"xa9too", "covr", "xa9lyr"}

\* C32: the lyrics a successful standardisation stores come from the synced
\* sidecar when it exists, with its timestamps stripped, and otherwise from
\* the plain-text sidecar when that exists, exactly as the file was read.
C32_LyricsSource ==
  (call.fn = "standardise" /\ call.done /\ call.ret.ret) =>
    /\ call.arg.lrc.exists => call.ret.lyr = helper_clean_up_lyrics(call.arg.lrc.text)
    /\ (~call.arg.lrc.exists /\ call.arg.txt.exists) => call.ret.lyr = call.arg.txt.text

\* the entries of a pass for which tags_set_attempted was incremented, among
\* the replace-kind and first-of-pair ones: those that reached an assignment
\* or an except clause, and the first-of-pair ones skipped on their length
Attempted(run) ==
  {run.writes[k].from : k \in 1..Len(run.writes)}
  \cup {run.failed[k].from : k \in 1..Len(run.failed)}
  \cup {run.skipped[k] : k \in {j \in 1..Len(run.skipped) : run.skipped[j] \in {"tracknumber", "discnumber"}}}

\* the entries of the last pass's table whose source field is present
PresentEntries ==
  {e \in {tags_map(LastInput.scheme)[k] : k \in 1..Len(tags_map(LastInput.scheme))} :
     e.from \in DOMAIN LastInput.input}

\* movement index, compilation flag, track number and disc number, as the
\* two tables name them
AlwaysRemapFields ==
  {"MVIN", "TCMP", "TRCK", "TPOS", "compilation", "tracknumber", "discnumber"}

Id3AlwaysRemap == {"MVIN", "TBPM", "TCMP", "TRCK", "TPOS"}

C34_TransferOutcome ==
  (call.fn = "copy_metadata" /\ call.done) =>
    /\ (call.arg.rc # 0 \/ ~call.arg.exists) => (~call.ret.ret /\ ~call.ret.mapperCalled)
    /\ (call.arg.rc = 0 /\ call.arg.exists) =>
         (call.ret.ret <=> call.arg.targetLoad = "ok")

\* C35: two different targets never have the same output path, and an
\* output path that holds the result of one worker is never removed or
\* overwritten afterwards.
C35_DestinationUniqueness ==
  /\ [](\A f, g \in TargetSet :
          f # g => mulipea_common_prehandle(f) # mulipea_common_prehandle(g))
  /\ [][\A o \in Outputs : dest[o] \in Files => dest'[o] = dest[o]]_vars

\* the output path of f holds a file
OutputThere(f) == dest[mulipea_common_prehandle(f)] # Absent

\* C36: for a worker that has exited, either the output file exists and the
\* log file does not, or the log file exists and the output file does not;
\* this is so in the step in which the worker exits and from then on.
C36_OutcomeExclusivity ==
  \A f \in Files :
    Exited(f) => \/ OutputThere(f) /\ f \notin logOn
                 \/ f \in logOn /\ ~OutputThere(f)

\* C37: whatever the route and wherever the attempt stops, no file it
\* writes, moves or deletes lies under the source root: every such file is
\* in the attempt's temporary directory or is the output path; the
\* pass-through route standardises its scratch copy, and the source is only
\* read.
C37_SourceReadOnly ==
  (call.fn = "attempt_files" /\ call.done) =>
    /\ \A p \in call.ret.touched :
         /\ p.root # DIR_MUSIC
         /\ p # call.arg.input
         /\ p.root = call.arg.dir \/ p = prehandle_output(call.arg.input)
    /\ (call.ret.route = "aac" /\ Len(call.ret.steps) >= 2) =>
         FilePath(call.arg.dir, call.arg.input.stem, call.arg.input.suffix) \in call.ret.touched

\* a pass-through attempt that went all the way: it touched its scratch copy
\* and the output, nothing else
C37_Witness ==
  /\ call.fn = "attempt_files" /\ call.done /\ call.ret.ret
  /\ call.ret.route = "aac"
  /\ call.ret.steps = <<"copy", "standardise", "relocate">>
  /\ call.ret.touched = {FilePath(call.arg.dir, call.arg.input.stem, call.arg.input.suffix),
                         prehandle_output(call.arg.input)}

\* the workers that have exited
ExitedWorkers == {f \in Files : Exited(f)}

\* C38: the completed count of the overall line never exceeds the number of
\* workers that have exited, never goes down, and equals the number of
\* targets once the run is over.
C38_OverallProgress ==
  /\ [](overall <= Cardinality(ExitedWorkers))
  /\ [][overall' >= overall]_vars
  /\ [](Reported => overall = Len(targets))

\* the entries of a run that were started and did not complete: no
\* assignment of theirs was stored
Incomplete(run) ==
  {k \in 1..Len(run.started) :
     ~\E j \in 1..Len(run.writes) : run.writes[j].from = run.started[k] /\ run.writes[j].landed}

\* C39: at the end of every pass of either mapper the two counters satisfy
\* 0 <= succeeded <= attempted; attempted counts the entries whose mapping
\* was started, succeeded those whose assignment was stored, and their
\* difference the entries that were started and did not complete (failed in
\* an except clause or skipped with a warning after the start).
C39_CountersConsistent ==
  (call.fn \in {"tag_vorbis_to_mp4", "tag_id3_to_mp4"}) =>
    \A n \in 1..Len(call.ret) :
      LET run == call.ret[n].run IN
      /\ 0 <= run.succeeded /\ run.succeeded <= run.attempted
      /\ run.attempted = Len(run.started)
      /\ run.succeeded = Cardinality({j \in 1..Len(run.writes) : run.writes[j].landed})
      /\ run.attempted - run.succeeded = Cardinality(Incomplete(run))
      /\ \A k \in 1..Len(run.failed) :
           \E j \in Incomplete(run) : run.started[j] = run.failed[k].from

\* a Vorbis pass that stored one field, failed on one in an except clause
\* and skipped one after starting it: attempted 3, succeeded 1
C39_Witness ==
  /\ MapperRan /\ call.fn = "tag_vorbis_to_mp4"
  /\ LastRun.attempted = 3 /\ LastRun.succeeded = 1
  /\ Len(LastRun.failed) = 1
  /\ \E k \in 1..Len(LastRun.skipped) :
       \E j \in 1..Len(LastRun.started) : LastRun.started[j] = LastRun.skipped[k]

====
